---- MODULE Spec2Model ----
(***************************************************************************)
(* Greeting editor: element transform and gesture engine.                  *)
(*                                                                         *)
(* Two hosts are modelled:                                                 *)
(*   GreetingEditor + EditableElement (inline editing, SlimToolbar), in    *)
(*   its plain and in its zoom variant;                                    *)
(*   GreetingEditorModal + EditableElementModal + TextEditModal.           *)
(* Spec runs the pointer sessions, selection and text editing of both;     *)
(* SpecScale runs the scale gestures and style toolbar of the first.       *)
(* SpecEdit runs the edit sessions of the text modal with all its style    *)
(* controls; SpecCommit runs every committing handler of both hosts.       *)
(* SpecBounds drags elements against the vertical bounds of the canvas;    *)
(* SpecLock runs the text modal on pages with inline styles of their own;  *)
(* SpecTimers runs the deferred callbacks of elements and of the text      *)
(* modal, also after their owner is gone.                                  *)
(* SpecText runs edit sessions over buffers built from text, line breaks   *)
(* and blocks; SpecSpacing runs the spacing sliders of the toolbar;        *)
(* SpecKeyboard runs the focus events and keyboard timers of the text      *)
(* modal.                                                                  *)
(*                                                                         *)
(* Numbers: every length, font size, line height and scale factor is kept  *)
(* as an integer count of tenths (PerPx per unit), so 20px is 200, a line  *)
(* height of 1.6 is 16 and a scale factor of 1.5 is 15.                    *)
(***************************************************************************)
EXTENDS Integers, Sequences, FiniteSets, TLC

VARIABLES
    host,               \* "inline", "zoom" (GreetingEditor and its zoom variant) or "modal"
    components,         \* useState<Component[]>
    selectedElementId,  \* useState<string | null>
    editingElementId,   \* inline host: useState<string | null>
    isToolbarOpen,      \* inline host: useState(false)
    isDraggingRef,      \* per element: useRef(false)
    allowDragRef,       \* per element (modal wrapper): useRef(false)
    domTransform,       \* per element: targetRef.current.style.transform
    session,            \* the pointer session in progress
    editableHtml,       \* inline host: innerHTML of the contentEditable
    focused,            \* inline host: element whose contentEditable has focus
    editingComponent,   \* modal host: useState<Component | null>, << >> for null
    initialEditContent, \* modal host: snapshot taken by handleElementClick
    initialEditStyle,   \* modal host: snapshot taken by handleElementClick
    editorHtml,         \* modal host: editorRef.current.innerHTML
    scale,              \* modal host: useState(1), the display scale in tenths
    documentStyle,      \* style.cssText of document.documentElement, body and #root
    originalStyle,      \* text modal: the cssText values its lock effect captured
    keyboardOffset,     \* text modal: useState(0), in px
    scrollOffset,       \* text modal: useState(0), in px
    staleRuns,          \* kinds of timer callback that ran after their owner was torn down
    keyboardWatcher,    \* text modal: keyboardWatcherRef, its intervals and hard timeouts
    onUpdateCalls,      \* onUpdate invocations made by the last step
    lastUpdate,         \* argument of the last onUpdate invocation
    gestures            \* pointer sessions started so far

vars ==
    << host, components, selectedElementId, editingElementId, isToolbarOpen,
       isDraggingRef, allowDragRef,
       domTransform, session, editableHtml, focused, editingComponent,
       initialEditContent, initialEditStyle, editorHtml, scale, documentStyle,
       originalStyle, keyboardOffset, scrollOffset, staleRuns, keyboardWatcher,
       onUpdateCalls, lastUpdate, gestures >>

----------------------------------------------------------------------------
(* Constants of the program *)

\* tenths per unit: the one-decimal resolution of Math.round(x * 10) / 10
PerPx ==
    10

\* if (dx > 5 || dy > 5)
TapThreshold ==
    5

\* Math.max(8, Math.min(72, newFontSize))
MinFontSize ==
    8

MaxFontSize ==
    72

\* Math.max(50, Math.min(containerBounds.width, newWidth))
MinWidth ==
    50

\* parseFloat(String(style.fontSize).replace('px', '')) || 16
DefaultFontSize ==
    16

\* containerBounds = { width: 335, height: 515 }, aspectRatio of the template
CanvasWidth ==
    335

CanvasHeight ==
    515

----------------------------------------------------------------------------
(* Bounds of the model *)

\* largest pointer displacement on one axis, in px
MaxMove ==
    6

\* largest scale factor of a scale gesture (in units, 10 = tenfold)
MaxScale ==
    10

\* pieces of an edit buffer
MaxPieces ==
    2

\* focus-in events in one session of the text modal
MaxFocusIns ==
    3

\* pointer sessions (drag or scale gestures, taps) in one behaviour
MaxSessions ==
    2

----------------------------------------------------------------------------
(* Style values *)

Null ==
    "null"

Ids ==
    {"e1", "e2"}

Px(n) ==
    [u |-> "px", v |-> n]

Pct(n) ==
    [u |-> "%", v |-> n]

Num(n) ==
    [u |-> "", v |-> n]

Str(s) ==
    [u |-> s, v |-> 0]

Undefined ==
    [u |-> "undefined", v |-> 0]

NaNPx ==
    [u |-> "NaNpx", v |-> 0]

TranslateXCenter ==
    Str("translateX(-50%)")

\* style.key, undefined when the key is absent
Get(style, key) ==
    IF key \in DOMAIN style THEN style[key] ELSE Undefined

\* JavaScript truthiness of a style value (every string here is non-empty)
Truthy(val) ==
    val # Undefined

\* parseFloat(String(val).replace('px', '')) is a number (not NaN)
IsNumber(val) ==
    val.u \in {"px", "%", ""}

\* parseFloat(String(val).replace('px', '')) || default
ParseFloatOr(val, default) ==
    IF IsNumber(val) /\ val.v # 0 THEN val.v ELSE default

\* { ...a, ...b }
Spread(a, b) ==
    [k \in (DOMAIN a) \cup (DOMAIN b) |-> IF k \in DOMAIN b THEN b[k] ELSE a[k]]

Abs(n) ==
    IF n < 0 THEN -n ELSE n

Min(a, b) ==
    IF a < b THEN a ELSE b

Max(a, b) ==
    IF a > b THEN a ELSE b

\* Math.round(num / den) for num >= 0, den > 0 (halves round up)
RoundDiv(num, den) ==
    (2 * num + den) \div (2 * den)

----------------------------------------------------------------------------
(* Component list *)

IndexOf(comps, id) ==
    CHOOSE i \in 1..Len(comps) : comps[i].id = id

HasId(comps, id) ==
    \E i \in 1..Len(comps) : comps[i].id = id

Comp(comps, id) ==
    comps[IndexOf(comps, id)]

----------------------------------------------------------------------------
(* Render geometry of GreetingEditor: stored style -> canvas position *)

ElementWidth(style) ==
    IF Truthy(Get(style, "width"))
    THEN IF Get(style, "width") = Pct(100 * PerPx)
         THEN CanvasWidth * PerPx
         ELSE ParseFloatOr(Get(style, "width"), CanvasWidth * PerPx)
    ELSE CanvasWidth * PerPx

IsCentered(style) ==
    /\ Get(style, "left") = Pct(50 * PerPx)
    /\ Get(style, "transform") = TranslateXCenter

RenderLeft(style) ==
    IF IsCentered(style)
    THEN (CanvasWidth * PerPx - ElementWidth(style)) \div 2
    ELSE ParseFloatOr(Get(style, "left"), 0)

RenderTop(style) ==
    ParseFloatOr(Get(style, "top"), 0)

\* position={{ x: left, y: top }}
Position(comps, id) ==
    [x |-> RenderLeft(Comp(comps, id).style), y |-> RenderTop(Comp(comps, id).style)]

\* the s of a transform string that has no scale() part
NoScale ==
    -1

\* `translate(${position.x}px, ${position.y}px)`
Translate(pos) ==
    [x |-> pos.x, y |-> pos.y, s |-> NoScale]

\* the position effect and the style prop: the DOM transform is rewritten for
\* the elements whose position prop changed
Rendered(oldComps, newComps, dom) ==
    [id \in Ids |->
        IF Position(newComps, id) # Position(oldComps, id)
        THEN Translate(Position(newComps, id))
        ELSE dom[id]]

----------------------------------------------------------------------------
(* Text: stored content and the editing buffer are token sequences; a token *)
(* is a character, "\n", or one tag "<br>", "<div>", "</div>", "<b>", "</b>" *)

Tags ==
    {"<br>", "<div>", "</div>", "<b>", "</b>"}

\* content.replace(/\n/g, '<br>')
ContentToHtml(content) ==
    [i \in 1..Len(content) |-> IF content[i] = "\n" THEN "<br>" ELSE content[i]]

\* handleBlur: <br> -> \n, <div> -> \n, </div> -> '', other tags -> ''
BlurToken(tok) ==
    IF tok \in {"<br>", "<div>"} THEN <<"\n">>
    ELSE IF tok \in Tags THEN <<>>
    ELSE <<tok>>

RECURSIVE BlurPlainText(_)
BlurPlainText(html) ==
    IF html = <<>> THEN <<>>
    ELSE BlurToken(Head(html)) \o BlurPlainText(Tail(html))

----------------------------------------------------------------------------
(* GreetingEditor (inline host): handlers on the component list *)

\* handlePositionChange without its transform: undefined
handlePositionChangeKeepsTransform(comps, elementId, x, y) ==
    [i \in 1..Len(comps) |->
        IF comps[i].id = elementId
        THEN [comps[i] EXCEPT !.style = Spread(@, [left |-> Px(x), top |-> Px(y)])]
        ELSE comps[i]]

\* handlePositionChange(elementId, x, y)
handlePositionChange(comps, elementId, x, y) ==
    [i \in 1..Len(comps) |->
        IF comps[i].id = elementId
        THEN [comps[i] EXCEPT !.style =
                Spread(@, [left |-> Px(x), top |-> Px(y), transform |-> Undefined])]
        ELSE comps[i]]

\* handleContentChange(elementId, newContent): the list part
handleContentChange(comps, elementId, newContent) ==
    [i \in 1..Len(comps) |->
        IF comps[i].id = elementId
        THEN [comps[i] EXCEPT !.content = newContent]
        ELSE comps[i]]

\* handleStyleChange writing style: newStyle without the ...comp.style spread
handleStyleChangeReplacesStyle(comps, elementId, newStyle) ==
    [i \in 1..Len(comps) |->
        IF comps[i].id = elementId
        THEN [comps[i] EXCEPT !.style = newStyle]
        ELSE comps[i]]

\* handleStyleChange(newStyle) of GreetingEditor: the list part
handleStyleChange(comps, elementId, newStyle) ==
    [i \in 1..Len(comps) |->
        IF comps[i].id = elementId
        THEN [comps[i] EXCEPT !.style = Spread(@, newStyle)]
        ELSE comps[i]]

\* handleStyleChange(newStyle) of GreetingEditor with its early return:
\* if (!selectedElementId) return;
handleStyleChangeCall(selected, comps, newStyle) ==
    IF selected = Null
    THEN [components |-> comps, calls |-> 0]
    ELSE [components |-> handleStyleChange(comps, selected, newStyle), calls |-> 1]

\* handleFontSizeChange keeping the old lineHeight number
NewLineHeightUnscaled(style, newFontSizeValue) ==
    IF IsNumber(Get(style, "lineHeight"))
    THEN Px(Get(style, "lineHeight").v)
    ELSE NaNPx

\* the lineHeight written by handleFontSizeChange:
\*   oldLineHeight = parseFloat(String(lineHeight).replace('px', ''))
\*   `${Math.round(oldLineHeight * ratio * 10) / 10}px`, ratio = new / old
NewLineHeight(style, newFontSizeValue) ==
    LET oldFontSize == ParseFloatOr(Get(style, "fontSize"), DefaultFontSize * PerPx)
        lh == Get(style, "lineHeight")
    IN  IF IsNumber(lh)
        THEN Px(RoundDiv(lh.v * newFontSizeValue, oldFontSize))
        ELSE NaNPx

\* handleFontSizeChange writing the new fontSize into every component (no id test)
handleFontSizeChangeEveryComponent(comps, elementId, newFontSize, newWidth) ==
    [i \in 1..Len(comps) |->
        [comps[i] EXCEPT !.style = Spread(@, [fontSize |-> newFontSize])]]

\* handleFontSizeChange(elementId, newFontSize, newWidth)
handleFontSizeChange(comps, elementId, newFontSize, newWidth) ==
    [i \in 1..Len(comps) |->
        IF comps[i].id = elementId
        THEN LET style == comps[i].style
                 withWidth == IF Truthy(newWidth) THEN [width |-> newWidth] ELSE << >>
                 withLh == IF Truthy(Get(style, "lineHeight"))
                           THEN [lineHeight |-> NewLineHeight(style, newFontSize.v)]
                           ELSE << >>
             IN  [comps[i] EXCEPT !.style =
                    Spread(Spread(Spread(@, [fontSize |-> newFontSize]),
                                  withWidth), withLh)]
        ELSE comps[i]]

----------------------------------------------------------------------------
(* GreetingEditor (inline host): handlers on the interaction state *)

UI ==
    [selectedElementId |-> selectedElementId,
     editingElementId |-> editingElementId,
     isToolbarOpen |-> isToolbarOpen]

\* handleElementSelect without its setSelectedElementId(elementId)
handleElementSelectOnlyToolbar(ui, elementId) ==
    [ui EXCEPT !.isToolbarOpen = TRUE]

\* handleElementSelect(elementId)
handleElementSelect(ui, elementId) ==
    [ui EXCEPT !.selectedElementId = elementId, !.isToolbarOpen = TRUE]

\* handleElementSelect(elementId) of the zoom variant
handleElementSelectZoom(ui, elementId) ==
    LET wasEditing == ui.editingElementId # Null
    IN  [ui EXCEPT !.selectedElementId = elementId,
                   !.isToolbarOpen = TRUE,
                   !.editingElementId =
                        IF wasEditing /\ @ # elementId THEN elementId ELSE @]

\* handleStartEdit(elementId)
handleStartEdit(ui, elementId) ==
    [ui EXCEPT !.editingElementId = elementId]

\* handleToolbarClose()
handleToolbarClose(ui) ==
    [ui EXCEPT !.isToolbarOpen = FALSE,
               !.selectedElementId = Null,
               !.editingElementId = Null]

\* handleBackgroundClick without its setEditingElementId(null)
handleBackgroundClickKeepsEditing(ui) ==
    [ui EXCEPT !.selectedElementId = Null,
               !.isToolbarOpen = FALSE]

\* handleBackgroundClick(e) with e.target === e.currentTarget
handleBackgroundClick(ui) ==
    [ui EXCEPT !.selectedElementId = Null,
               !.isToolbarOpen = FALSE,
               !.editingElementId = Null]

\* setEditingElementId(null) at the end of handleContentChange
endEditing(ui) ==
    [ui EXCEPT !.editingElementId = Null]

----------------------------------------------------------------------------
(* Templates: the component lists the editor is loaded with *)

\* styles of the first element: centered sentinel, plain pixels
Style1Cases ==
    { [left |-> Pct(50 * PerPx), top |-> Px(100 * PerPx), transform |-> TranslateXCenter,
       fontSize |-> Px(20 * PerPx), lineHeight |-> Px(32 * PerPx), color |-> Str("#111")],
      [left |-> Px(10 * PerPx), top |-> Px(20 * PerPx), width |-> Px(100 * PerPx),
       fontSize |-> Px(16 * PerPx), lineHeight |-> Num(16), color |-> Str("#111")] }

\* further styles for the scale gestures: full width with no fontSize and no
\* lineHeight, and keyword values (ComponentStyle types both as string)
Style1ScaleCases ==
    Style1Cases \cup
    { [left |-> Px(10 * PerPx), top |-> Px(20 * PerPx), width |-> Pct(100 * PerPx),
       color |-> Str("#111")],
      [left |-> Px(10 * PerPx), top |-> Px(20 * PerPx), width |-> Px(100 * PerPx),
       fontSize |-> Str("large"), lineHeight |-> Str("normal"), color |-> Str("#111")] }

Style2 ==
    [left |-> Px(30 * PerPx), top |-> Px(200 * PerPx), width |-> Px(120 * PerPx),
     fontSize |-> Px(14 * PerPx), lineHeight |-> Px(26 * PerPx), color |-> Str("#333333")]

Template(style1) ==
    << [id |-> "e1", type |-> "text", content |-> <<"a", "\n", "b">>, style |-> style1],
       [id |-> "e2", type |-> "text", content |-> <<"c">>, style |-> Style2] >>

----------------------------------------------------------------------------
(* Pointer sessions *)

IdleSession ==
    [phase |-> "idle", kind |-> "none", el |-> Null, off |-> <<0, 0>>,
     start |-> [x |-> 0, y |-> 0], pending |-> {}, commits |-> 0, at |-> <<0, 0>>,
     moved |-> FALSE, tapped |-> FALSE,
     hasLast |-> FALSE, lastScale |-> 0, initialFontSize |-> 0, initialWidth |-> 0]

\* pointer displacements from the pointer-down position, in px
MoveVectors ==
    { <<0, 0>>, <<TapThreshold, TapThreshold>>, <<MaxMove, 0>>, <<0, -MaxMove>> }

\* scale factors reported by the library, in tenths
ScaleFactors ==
    { 0, 1, PerPx, PerPx + 5, MaxScale * PerPx }

\* dx > 5 || dy > 5
Exceeds(off) ==
    Abs(off[1]) > TapThreshold \/ Abs(off[2]) > TapThreshold

\* e.transform of onDrag: the start translation plus the pointer displacement,
\* kept inside bounds = { left: -Infinity, top: 0, right: Infinity, bottom: height }
DragTransform(start, off) ==
    [x |-> start.x + off[1] * PerPx,
     y |-> Max(0, Min(CanvasHeight * PerPx, start.y + off[2] * PerPx)),
     s |-> NoScale]

NoPointer ==
    session.phase \in {"idle", "done"}

\* the page renders GreetingEditor (plain or zoom variant)
InlineHost ==
    host \in {"inline", "zoom"}

\* the page renders GreetingEditorModal
ModalHost ==
    host = "modal"

\* Moveable rendered whether or not the element is edited
MoveableMountedWhileEditing(id) ==
    TRUE

\* {!isEditing && targetRef.current && <Moveable ...>}
MoveableMounted(id) ==
    editingElementId # id

\* a finished session keeps what it did and forgets the pointer
Finished(sess) ==
    [IdleSession EXCEPT !.phase = "done", !.kind = sess.kind, !.el = sess.el,
                        !.commits = sess.commits, !.at = sess.at,
                        !.moved = sess.moved, !.tapped = sess.tapped]

\* the release is over once both callbacks have run
AfterRelease(sess) ==
    IF sess.pending = {} THEN Finished(sess) ELSE sess

----------------------------------------------------------------------------
(* Inline host: GreetingEditor + EditableElement *)

modalVars ==
    << allowDragRef, editingComponent, initialEditContent, initialEditStyle, editorHtml,
       scale, documentStyle, originalStyle, keyboardOffset, scrollOffset, staleRuns,
       keyboardWatcher >>

\* a handler run whose onUpdate is handed the list of the closure (components)
\* instead of updatedComponents
InlineStepStaleUpdate(ui, comps, dom, calls) ==
    /\ selectedElementId' = ui.selectedElementId
    /\ editingElementId' = ui.editingElementId
    /\ isToolbarOpen' = ui.isToolbarOpen
    /\ components' = comps
    /\ domTransform' = Rendered(components, comps, dom)
    /\ editableHtml' =
          IF ui.editingElementId = editingElementId THEN editableHtml
          ELSE IF ui.editingElementId = Null THEN << >>
          ELSE ContentToHtml(Comp(comps, ui.editingElementId).content)
    /\ focused' = IF ui.editingElementId = editingElementId THEN focused ELSE Null
    /\ onUpdateCalls' = calls
    /\ lastUpdate' = IF calls > 0 THEN components ELSE << >>

\* One handler run of the inline host: the interaction state, the component
\* list and the DOM it leaves after React has rendered.  The contentEditable
\* is mounted with dangerouslySetInnerHTML = content.replace(/\n/g, '<br>')
\* when an element starts being edited and unmounted when it stops.
InlineStep(ui, comps, dom, calls) ==
    /\ selectedElementId' = ui.selectedElementId
    /\ editingElementId' = ui.editingElementId
    /\ isToolbarOpen' = ui.isToolbarOpen
    /\ components' = comps
    /\ domTransform' = Rendered(components, comps, dom)
    /\ editableHtml' =
          IF ui.editingElementId = editingElementId THEN editableHtml
          ELSE IF ui.editingElementId = Null THEN << >>
          ELSE ContentToHtml(Comp(comps, ui.editingElementId).content)
    /\ focused' = IF ui.editingElementId = editingElementId THEN focused ELSE Null
    /\ onUpdateCalls' = calls
    /\ lastUpdate' = IF calls > 0 THEN comps ELSE << >>

\* onSelect prop: handleElementSelect of the host variant in use
onSelect(ui, id) ==
    IF host = "zoom" THEN handleElementSelectZoom(ui, id) ELSE handleElementSelect(ui, id)

\* handleClick calling onSelect() only
TapInlineSelectsOnly(ui, id) ==
    onSelect(ui, id)

\* handleClick, past the isDraggingRef and isEditing guards: onSelect(); onStartEdit()
TapInline(ui, id) ==
    handleStartEdit(onSelect(ui, id), id)

\* onMouseDown / onTouchStart of the element, and onDragStart of the library
PointerDown(id) ==
    /\ InlineHost
    /\ NoPointer
    /\ gestures < MaxSessions
    /\ MoveableMounted(id)
    /\ isDraggingRef' = [isDraggingRef EXCEPT ![id] = FALSE]
    /\ session' = [IdleSession EXCEPT !.phase = "down", !.kind = "pointer", !.el = id,
                                      !.start = domTransform[id]]
    /\ gestures' = gestures + 1
    /\ InlineStep(UI, components, domTransform, 0)
    /\ UNCHANGED << host, modalVars >>

\* onDrag
PointerMove(off) ==
    /\ InlineHost
    /\ session.phase = "down"
    /\ isDraggingRef' = [isDraggingRef EXCEPT ![session.el] = @ \/ Exceeds(off)]
    /\ session' = [session EXCEPT !.off = off, !.moved = @ \/ Exceeds(off)]
    /\ InlineStep(UI, components,
                  [domTransform EXCEPT ![session.el] = DragTransform(session.start, off)],
                  0)
    /\ UNCHANGED << host, modalVars, gestures >>

\* the pointer is released: the element's onMouseUp / onTouchEnd and the
\* library's onDragEnd are both due
PointerUp ==
    /\ InlineHost
    /\ session.phase = "down"
    /\ session' = [session EXCEPT !.phase = "up", !.pending = {"click", "dragEnd"}]
    /\ InlineStep(UI, components, domTransform, 0)
    /\ UNCHANGED << host, isDraggingRef, modalVars, gestures >>

\* handleClick
ReleaseClick ==
    /\ InlineHost
    /\ session.phase = "up"
    /\ "click" \in session.pending
    /\ LET id == session.el
           isTap == ~isDraggingRef[id] /\ editingElementId # id
       IN  /\ isDraggingRef' = [isDraggingRef EXCEPT ![id] = FALSE]
           /\ session' = AfterRelease([session EXCEPT !.pending = @ \ {"click"},
                                                      !.tapped = isTap])
           /\ InlineStep(IF isTap THEN TapInline(UI, id) ELSE UI,
                         components, domTransform, 0)
    /\ UNCHANGED << host, modalVars, gestures >>

\* onDragEnd
ReleaseDragEnd ==
    /\ InlineHost
    /\ session.phase = "up"
    /\ "dragEnd" \in session.pending
    /\ MoveableMounted(session.el)
    /\ LET id == session.el
           x == domTransform[id].x
           y == domTransform[id].y
       IN  /\ isDraggingRef' = [isDraggingRef EXCEPT ![id] = FALSE]
           /\ session' = AfterRelease([session EXCEPT !.pending = @ \ {"dragEnd"},
                                                      !.commits = @ + 1,
                                                      !.at = <<x, y>>])
           /\ InlineStep(UI, handlePositionChange(components, id, x, y),
                         domTransform, 1)
    /\ UNCHANGED << host, modalVars, gestures >>

\* the tap put the element into edit mode before the library's release
\* listener ran: Moveable is unmounted and its onDragEnd is never called
MoveableUnmount ==
    /\ InlineHost
    /\ session.phase = "up"
    /\ "dragEnd" \in session.pending
    /\ ~MoveableMounted(session.el)
    /\ session' = AfterRelease([session EXCEPT !.pending = @ \ {"dragEnd"}])
    /\ InlineStep(UI, components, domTransform, 0)
    /\ UNCHANGED << host, isDraggingRef, modalVars, gestures >>

\* textStyle of the render: width: style.width === '100%' ? `${aspectRatio.x}px` : style.width
TextStyleWidth(style) ==
    IF Get(style, "width") = Pct(100 * PerPx) THEN Px(CanvasWidth * PerPx)
    ELSE Get(style, "width")

\* onScaleStart
ScaleStart(id) ==
    /\ InlineHost
    /\ NoPointer
    /\ gestures < MaxSessions
    /\ MoveableMounted(id)
    /\ LET style == Comp(components, id).style
       IN  session' = [IdleSession EXCEPT
                !.phase = "scaling",
                !.kind = "scale",
                !.el = id,
                !.initialFontSize =
                    ParseFloatOr(Get(style, "fontSize"), DefaultFontSize * PerPx),
                !.initialWidth =
                    ParseFloatOr(TextStyleWidth(style), CanvasWidth * PerPx)]
    /\ gestures' = gestures + 1
    /\ InlineStep(UI, components, domTransform, 0)
    /\ UNCHANGED << host, isDraggingRef, modalVars >>

\* onScale
ScaleMove(scaleValue) ==
    /\ InlineHost
    /\ session.phase = "scaling"
    /\ session' = [session EXCEPT !.hasLast = TRUE, !.lastScale = scaleValue]
    /\ InlineStep(UI, components,
                  [domTransform EXCEPT ![session.el] =
                      [Translate(Position(components, session.el)) EXCEPT !.s = scaleValue]],
                  0)
    /\ UNCHANGED << host, isDraggingRef, modalVars, gestures >>

\* const scale = e.lastEvent?.scale?.[0] || 1
ReleaseScale(sess) ==
    IF sess.hasLast /\ sess.lastScale # 0 THEN sess.lastScale ELSE PerPx

\* onScaleEnd without the Math.max / Math.min on the font size
ClampedFontSizeUnclamped(initialFontSize, factor) ==
    RoundDiv(initialFontSize * factor, PerPx * PerPx)

\* Math.max(8, Math.min(72, Math.round(initialFontSizeRef.current * scale)))
ClampedFontSize(initialFontSize, factor) ==
    Max(MinFontSize, Min(MaxFontSize, RoundDiv(initialFontSize * factor, PerPx * PerPx)))

\* Math.max(50, Math.min(containerBounds.width, Math.round(initialWidthRef.current * scale)))
ClampedWidth(initialWidth, factor) ==
    Max(MinWidth, Min(CanvasWidth, RoundDiv(initialWidth * factor, PerPx * PerPx)))

\* onScaleEnd leaving the transform of the last onScale in place
onScaleEndTransformKeepsScale(pos, scaleValue) ==
    [Translate(pos) EXCEPT !.s = scaleValue]

\* onScaleEnd: e.target.style.transform = `translate(${position.x}px, ${position.y}px)`
onScaleEndTransform(pos, scaleValue) ==
    Translate(pos)

\* onScaleEnd
ScaleEnd ==
    /\ InlineHost
    /\ session.phase = "scaling"
    /\ LET id == session.el
           factor == ReleaseScale(session)
           newFontSize == Px(ClampedFontSize(session.initialFontSize, factor) * PerPx)
           newWidth == Px(ClampedWidth(session.initialWidth, factor) * PerPx)
           reset == [domTransform EXCEPT ![id] =
                        onScaleEndTransform(Position(components, id), domTransform[id].s)]
       IN  IF host = "zoom"
           THEN \* the zoom variant passes no onFontSizeChange
                InlineStep(UI, components, reset, 0)
           ELSE InlineStep(UI, handleFontSizeChange(components, id, newFontSize, newWidth),
                           reset, 1)
    /\ session' = Finished([session EXCEPT !.commits = IF host = "zoom" THEN 0 ELSE 1])
    /\ UNCHANGED << host, isDraggingRef, modalVars, gestures >>

\* the 50 ms focus timer of the element that entered edit mode
FocusTimer ==
    /\ InlineHost
    /\ session.phase # "up"
    /\ editingElementId # Null
    /\ focused = Null
    /\ focused' = editingElementId
    /\ onUpdateCalls' = 0
    /\ lastUpdate' = << >>
    /\ UNCHANGED << host, components, selectedElementId, editingElementId, isToolbarOpen,
                    isDraggingRef, domTransform, session, editableHtml,
                    modalVars, gestures >>

\* buffers the user can leave in the inline contentEditable
InlineBuffers ==
    { <<"x", "<div>", "<br>", "</div>">> }

\* typing into the focused contentEditable
TypeInline(html) ==
    /\ InlineHost
    /\ NoPointer
    /\ focused # Null
    /\ editableHtml' = html
    /\ onUpdateCalls' = 0
    /\ lastUpdate' = << >>
    /\ UNCHANGED << host, components, selectedElementId, editingElementId, isToolbarOpen,
                    isDraggingRef, domTransform, session, focused,
                    modalVars, gestures >>

\* handleBlur -> onContentChange -> handleContentChange of the host
Blur ==
    /\ InlineHost
    /\ session.phase # "up"
    /\ focused # Null
    /\ InlineStep(endEditing(UI),
                  handleContentChange(components, focused, BlurPlainText(editableHtml)),
                  domTransform, 1)
    /\ UNCHANGED << host, isDraggingRef, session, modalVars, gestures >>

\* a click on the background that leaves a focused contentEditable unblurred
BackgroundClickWithoutBlur ==
    /\ InlineHost
    /\ NoPointer
    /\ InlineStep(handleBackgroundClick(UI), components, domTransform, 0)
    /\ UNCHANGED << host, isDraggingRef, session, modalVars, gestures >>

\* a tap on the background itself (e.target === e.currentTarget).  Its press
\* takes the focus from a focused contentEditable (no handler prevents the
\* default of the press), so handleBlur runs and is rendered first; its click
\* then runs handleBackgroundClick.
BackgroundClick ==
    /\ InlineHost
    /\ NoPointer
    /\ LET blurred == focused # Null
           ui == IF blurred THEN endEditing(UI) ELSE UI
           comps == IF blurred
                    THEN handleContentChange(components, focused,
                                             BlurPlainText(editableHtml))
                    ELSE components
       IN  InlineStep(handleBackgroundClick(ui), comps, domTransform,
                      IF blurred THEN 1 ELSE 0)
    /\ UNCHANGED << host, isDraggingRef, session, modalVars, gestures >>

\* {selectedComponent && isToolbarOpen && <SlimToolbar ... />}
ToolbarShown ==
    selectedElementId # Null /\ HasId(components, selectedElementId) /\ isToolbarOpen

\* the close button of the SlimToolbar
ToolbarClose ==
    /\ InlineHost
    /\ NoPointer
    /\ ToolbarShown
    /\ InlineStep(handleToolbarClose(UI), components, domTransform, 0)
    /\ UNCHANGED << host, isDraggingRef, session, modalVars, gestures >>

\* partial styles the SlimToolbar controls send: handleColorChange, handleSizeChange
ToolbarChanges ==
    { [color |-> Str("#000000")], [fontSize |-> Px(12 * PerPx)] }

\* onStyleChange of the SlimToolbar -> handleStyleChange of the host
ToolbarStyle(newStyle) ==
    /\ InlineHost
    /\ NoPointer
    /\ ToolbarShown
    /\ InlineStep(UI, handleStyleChange(components, selectedElementId, newStyle),
                  domTransform, 1)
    /\ UNCHANGED << host, isDraggingRef, session, modalVars, gestures >>

\* parseFloat(style.letterSpacing?.replace('px', '') || '0'), in tenths; the
\* letterSpacing of every style here is absent or a number
currentLetterSpacing(style) ==
    IF IsNumber(Get(style, "letterSpacing")) THEN Get(style, "letterSpacing").v ELSE 0

\* `${parseFloat(style.lineHeight || '1.6')}`: the number without its unit
currentLineHeight(style) ==
    IF ~Truthy(Get(style, "lineHeight")) THEN Num(16)
    ELSE IF IsNumber(Get(style, "lineHeight")) THEN Num(Get(style, "lineHeight").v)
    ELSE Str("NaN")

\* slider positions: letter spacing -2..5 px by 0.5, line height 1..2.5 by 0.1
SpacingInputs ==
    { <<"letterSpacing", 5>>, <<"letterSpacing", 2 * PerPx>>, <<"lineHeight", 2 * PerPx>> }

\* a spacing slider of the SlimToolbar: handleSpacingChange(letterSpacing, lineHeight)
\* with the slider's value for one and the current value of the other
ToolbarSpacing(input) ==
    /\ InlineHost
    /\ NoPointer
    /\ ToolbarShown
    /\ LET style == Comp(components, selectedElementId).style
           newStyle == IF input[1] = "letterSpacing"
                       THEN [letterSpacing |-> Px(input[2]),
                             lineHeight |-> currentLineHeight(style)]
                       ELSE [letterSpacing |-> Px(currentLetterSpacing(style)),
                             lineHeight |-> Num(input[2])]
       IN  InlineStep(UI, handleStyleChange(components, selectedElementId, newStyle),
                      domTransform, 1)
    /\ UNCHANGED << host, isDraggingRef, session, modalVars, gestures >>

\* handleStyleChange run in a render that shows no toolbar
StyleCallNoToolbar(newStyle) ==
    /\ InlineHost
    /\ NoPointer
    /\ ~ToolbarShown
    /\ LET r == handleStyleChangeCall(selectedElementId, components, newStyle)
       IN  InlineStep(UI, r.components, domTransform, r.calls)
    /\ UNCHANGED << host, isDraggingRef, session, modalVars, gestures >>

----------------------------------------------------------------------------
(* Modal host: GreetingEditorModal + EditableElementModal + TextEditModal *)

inlineVars ==
    << editingElementId, isToolbarOpen, editableHtml, focused >>

\* handlePositionChange(elementId, x, y) of GreetingEditorModal
handlePositionChangeModal(comps, elementId, x, y) ==
    [i \in 1..Len(comps) |->
        IF comps[i].id = elementId
        THEN [comps[i] EXCEPT !.style =
                Spread(@, [left |-> Px(x), top |-> Px(y), transform |-> Undefined])]
        ELSE comps[i]]

\* handleContentChange mapping every component to the new content (no id test)
handleContentChangeModalEveryComponent(comps, elementId, newContent) ==
    [i \in 1..Len(comps) |-> [comps[i] EXCEPT !.content = newContent]]

\* handleContentChange(elementId, newContent) of GreetingEditorModal: the list part
handleContentChangeModal(comps, elementId, newContent) ==
    [i \in 1..Len(comps) |->
        IF comps[i].id = elementId
        THEN [comps[i] EXCEPT !.content = newContent]
        ELSE comps[i]]

\* handleStyleChange keeping the change out of the list until a save
handleStyleChangeModalBuffered(comps, elementId, newStyle) ==
    comps

\* handleStyleChange(elementId, newStyle) of GreetingEditorModal: the list part
handleStyleChangeModal(comps, elementId, newStyle) ==
    [i \in 1..Len(comps) |->
        IF comps[i].id = elementId
        THEN [comps[i] EXCEPT !.style = Spread(@, newStyle)]
        ELSE comps[i]]

\* position={{ x: scaledLeft, y: scaledTop }}: left * scale, top * scale
PositionModal(comps, id) ==
    [x |-> (RenderLeft(Comp(comps, id).style) * scale) \div PerPx,
     y |-> (RenderTop(Comp(comps, id).style) * scale) \div PerPx]

RenderedModal(oldComps, newComps, dom) ==
    [id \in Ids |->
        IF PositionModal(newComps, id) # PositionModal(oldComps, id)
        THEN Translate(PositionModal(newComps, id))
        ELSE dom[id]]

\* containerBounds handed over in canvas pixels, not in displayed pixels
containerBoundsHeightUnscaled ==
    CanvasHeight * PerPx

\* containerBounds={{ ..., height: aspectRatio.y * scale }}
containerBoundsHeight ==
    CanvasHeight * scale

\* e.transform of onDrag under bounds = { top: 0, bottom: containerBounds.height }
DragTransformModal(start, off) ==
    [x |-> start.x + off[1] * PerPx,
     y |-> Max(0, Min(containerBoundsHeight, start.y + off[2] * PerPx)),
     s |-> NoScale]

\* onRelease left without effect on the selection
onReleaseKeepsSelection(selected) ==
    selected

\* onRelease={() => setSelectedElementId(null)}
onRelease(selected) ==
    Null

\* disabled={Boolean(editingComponent)}
disabled ==
    editingComponent # << >>

\* no text modal is mounted: its effect closure does not exist
NoLock ==
    [html |-> Null, body |-> Null, root |-> Null]

\* the cssText values the lock effect writes; #root is written only if it exists
LockedStyle(doc) ==
    [html |-> "height: base; max-height: base; width: 100%; overflow: hidden; position: fixed; inset: 0",
     body |-> "overflow: hidden; position: fixed; width: 100%; height: base; max-height: base; top: 0; left: 0; touch-action: none",
     root |-> IF doc.root # Null
              THEN "width: 100%; height: base; max-height: base"
              ELSE Null]

\* a cleanup that leaves #root as the lock wrote it
LockCleanupKeepsRoot(doc, original) ==
    [html |-> original.html, body |-> original.body, root |-> doc.root]

\* cleanup of the lock effect:
\*   body.cssText = originalBodyStyle; documentElement.cssText = originalHtmlStyle;
\*   if (rootEl && originalRootStyle !== undefined) rootEl.style.cssText = originalRootStyle
LockCleanup(doc, original) ==
    [html |-> original.html,
     body |-> original.body,
     root |-> IF doc.root # Null /\ original.root # Null THEN original.root ELSE doc.root]

\* useEffect(() => { ...lock...; return cleanup }, []) of TextEditModal: runs when
\* the render mounts the modal, its cleanup when the render unmounts it
LockEffect(editing) ==
    IF editingComponent = << >> /\ editing # << >>
    THEN /\ originalStyle' = documentStyle
         /\ documentStyle' = LockedStyle(documentStyle)
    ELSE IF editingComponent # << >> /\ editing = << >>
    THEN /\ documentStyle' = LockCleanup(documentStyle, originalStyle)
         /\ originalStyle' = NoLock
    ELSE UNCHANGED << documentStyle, originalStyle >>

\* keyboardWatcherRef = useRef<number | null>(null) of a text modal that is not
\* mounted or has seen no focus-in: ref is the interval id in the ref (0 for
\* null), active the intervals set and not cleared, pending the focus-ins
\* whose 1200 ms timeout has not run, started the focus-ins so far
NoWatcher ==
    [ref |-> 0, active |-> {}, pending |-> {}, started |-> 0]

\* cleanup of the keyboard effect: clearInterval(keyboardWatcherRef.current)
\* and the ref set to null.  The timeouts still pending read the ref of the
\* unmounted modal, which stays null, and do nothing: they are dropped.
WatcherCleanup(w) ==
    [ref |-> 0,
     active |-> IF w.ref # 0 THEN w.active \ {w.ref} ELSE w.active,
     pending |-> {},
     started |-> 0]

\* the keyboard effect has no dependencies: its cleanup runs when the text
\* modal unmounts
WatcherState(editing) ==
    keyboardWatcher' =
       IF editingComponent # << >> /\ editing = << >>
       THEN WatcherCleanup(keyboardWatcher)
       ELSE keyboardWatcher

\* useState(0) of keyboardOffset and scrollOffset: the state is created with the
\* modal and gone with it
OffsetState(editing) ==
    IF (editingComponent = << >>) # (editing = << >>)
    THEN keyboardOffset' = 0 /\ scrollOffset' = 0
    ELSE UNCHANGED << keyboardOffset, scrollOffset >>

\* one handler run of the modal host and the render that follows it
ModalStep(selected, editing, comps, dom, calls) ==
    /\ selectedElementId' = selected
    /\ editingComponent' = editing
    /\ LockEffect(editing)
    /\ OffsetState(editing)
    /\ WatcherState(editing)
    /\ UNCHANGED staleRuns
    /\ components' = comps
    /\ domTransform' = RenderedModal(components, comps, dom)
    /\ onUpdateCalls' = calls
    /\ lastUpdate' = IF calls > 0 THEN comps ELSE << >>

\* onMouseDown / onTouchStart of the element and onDragStart of the library
PointerDownModal(id) ==
    /\ ModalHost
    /\ NoPointer
    /\ gestures < MaxSessions
    /\ ~disabled
    /\ isDraggingRef' = [isDraggingRef EXCEPT ![id] = FALSE]
    /\ allowDragRef' = [allowDragRef EXCEPT ![id] = TRUE]
    /\ session' = [IdleSession EXCEPT !.phase = "down", !.kind = "pointer", !.el = id,
                                      !.start = domTransform[id]]
    /\ gestures' = gestures + 1
    /\ ModalStep(id, editingComponent, components, domTransform, 0)
    /\ UNCHANGED << host, inlineVars, initialEditContent, initialEditStyle, editorHtml,
                    scale >>

\* onDrag of EditableElementModal
PointerMoveModal(off) ==
    /\ ModalHost
    /\ session.phase = "down"
    /\ LET id == session.el
           ignored == disabled \/ ~allowDragRef[id] \/ selectedElementId # id
       IN  /\ isDraggingRef' =
                 [isDraggingRef EXCEPT ![id] = @ \/ (~ignored /\ Exceeds(off))]
           /\ ModalStep(selectedElementId, editingComponent, components,
                        IF ignored THEN domTransform
                        ELSE [domTransform EXCEPT ![id] =
                                 DragTransformModal(session.start, off)],
                        0)
    /\ session' = [session EXCEPT !.off = off, !.moved = @ \/ Exceeds(off)]
    /\ UNCHANGED << host, inlineVars, allowDragRef, initialEditContent, initialEditStyle,
                    editorHtml, scale, gestures >>

PointerUpModal ==
    /\ ModalHost
    /\ session.phase = "down"
    /\ session' = [session EXCEPT !.phase = "up", !.pending = {"click", "dragEnd"}]
    /\ ModalStep(selectedElementId, editingComponent, components, domTransform, 0)
    /\ UNCHANGED << host, inlineVars, isDraggingRef, allowDragRef, initialEditContent,
                    initialEditStyle, editorHtml, scale, gestures >>

\* handleMouseUp; handleTouchEnd differs only in clearing allowDragRef after a
\* tap, which the next pointer-down sets again
ReleaseMouseUpModal ==
    /\ ModalHost
    /\ session.phase = "up"
    /\ "click" \in session.pending
    /\ LET id == session.el
           dragged == Exceeds(session.off) \/ isDraggingRef[id]
           opens == ~dragged /\ ~disabled
       IN  /\ isDraggingRef' = [isDraggingRef EXCEPT ![id] = IF dragged THEN FALSE ELSE @]
           /\ allowDragRef' = [allowDragRef EXCEPT ![id] = IF dragged THEN FALSE ELSE @]
           /\ session' = AfterRelease([session EXCEPT !.pending = @ \ {"click"},
                                                      !.tapped = opens])
           /\ IF dragged
              THEN \* onRelease?.()
                   /\ ModalStep(onRelease(selectedElementId), editingComponent, components,
                                domTransform, 0)
                   /\ UNCHANGED << initialEditContent, initialEditStyle, editorHtml >>
              ELSE IF opens
              THEN \* onSelect(); onClick() -> handleElementClick(component)
                   /\ ModalStep(id, <<Comp(components, id)>>, components, domTransform, 0)
                   /\ initialEditContent' = Comp(components, id).content
                   /\ initialEditStyle' = Comp(components, id).style
                   /\ editorHtml' = ContentToHtml(Comp(components, id).content)
              ELSE /\ ModalStep(selectedElementId, editingComponent, components,
                                domTransform, 0)
                   /\ UNCHANGED << initialEditContent, initialEditStyle, editorHtml >>
    /\ UNCHANGED << host, inlineVars, scale, gestures >>

\* onDragEnd of EditableElementModal
ReleaseDragEndModal ==
    /\ ModalHost
    /\ session.phase = "up"
    /\ "dragEnd" \in session.pending
    /\ ~disabled
    /\ LET id == session.el
           commit == isDraggingRef[id] /\ allowDragRef[id]
           x == (domTransform[id].x * PerPx) \div scale
           y == (domTransform[id].y * PerPx) \div scale
       IN  /\ isDraggingRef' = [isDraggingRef EXCEPT ![id] = FALSE]
           /\ allowDragRef' = [allowDragRef EXCEPT ![id] = FALSE]
           /\ session' = AfterRelease([session EXCEPT
                            !.pending = @ \ {"dragEnd"},
                            !.commits = IF commit THEN @ + 1 ELSE @,
                            !.at = IF commit THEN <<x, y>> ELSE @])
           /\ IF commit
              THEN \* onPositionChange(x, y); onRelease?.()
                   ModalStep(onRelease(selectedElementId), editingComponent,
                             handlePositionChangeModal(components, id, x, y),
                             domTransform, 1)
              ELSE ModalStep(selectedElementId, editingComponent, components,
                             domTransform, 0)
    /\ UNCHANGED << host, inlineVars, initialEditContent, initialEditStyle, editorHtml,
                    scale, gestures >>

\* {targetRef.current && !disabled && <Moveable ...>}: the tap opened the modal
\* before the library's release listener ran, so its onDragEnd is never called
MoveableUnmountModal ==
    /\ ModalHost
    /\ session.phase = "up"
    /\ "dragEnd" \in session.pending
    /\ disabled
    /\ session' = AfterRelease([session EXCEPT !.pending = @ \ {"dragEnd"}])
    /\ ModalStep(selectedElementId, editingComponent, components, domTransform, 0)
    /\ UNCHANGED << host, inlineVars, isDraggingRef, allowDragRef, initialEditContent,
                    initialEditStyle, editorHtml, scale, gestures >>

\* handleBackgroundClick of GreetingEditorModal; the open modal covers the page
BackgroundClickModal ==
    /\ ModalHost
    /\ NoPointer
    /\ ~disabled
    /\ ModalStep(Null, editingComponent, components, domTransform, 0)
    /\ UNCHANGED << host, inlineVars, isDraggingRef, allowDragRef, session,
                    initialEditContent, initialEditStyle, editorHtml, scale, gestures >>

----------------------------------------------------------------------------
(* TextEditModal *)

\* cleanedHtml.replace(/<div><br><\/div>/gi, '<br>')
RECURSIVE CollapseEmptyDivs(_)
CollapseEmptyDivs(html) ==
    IF html = << >> THEN << >>
    ELSE IF Len(html) >= 3 /\ SubSeq(html, 1, 3) = <<"<div>", "<br>", "</div>">>
    THEN <<"<br>">> \o CollapseEmptyDivs(SubSeq(html, 4, Len(html)))
    ELSE <<Head(html)>> \o CollapseEmptyDivs(Tail(html))

\* index of the first "</div>" a match of /<div>(.*?)<\/div>/ starting at
\* html[1] = "<div>" ends at, 0 when there is none ("." stops at a newline)
CloseOfDiv(html) ==
    LET closes == { j \in 2..Len(html) :
                        /\ html[j] = "</div>"
                        /\ \A k \in 2..(j - 1) : html[k] # "\n" }
    IN  IF closes = {} THEN 0 ELSE CHOOSE j \in closes : \A k \in closes : j <= k

\* cleanedHtml.replace(/<div>(.*?)<\/div>/gi, '<br>$1')
RECURSIVE UnwrapDivs(_)
UnwrapDivs(html) ==
    IF html = << >> THEN << >>
    ELSE IF Head(html) = "<div>" /\ CloseOfDiv(html) # 0
    THEN <<"<br>">> \o SubSeq(html, 2, CloseOfDiv(html) - 1)
                    \o UnwrapDivs(SubSeq(html, CloseOfDiv(html) + 1, Len(html)))
    ELSE <<Head(html)>> \o UnwrapDivs(Tail(html))

\* cleanedHtml.replace(/^<br>/i, '')
StripLeadingBr(html) ==
    IF html # << >> /\ Head(html) = "<br>" THEN Tail(html) ELSE html

\* handleSave stripping every tag without turning <br> into a newline first
SaveTokenDropsBr(tok) ==
    IF tok \in Tags THEN << >> ELSE <<tok>>

\* .replace(/<br\s*\/?>/gi, '\n').replace(/<[^>]*>/g, '')
SaveToken(tok) ==
    IF tok = "<br>" THEN <<"\n">>
    ELSE IF tok \in Tags THEN << >>
    ELSE <<tok>>

RECURSIVE StripTags(_)
StripTags(html) ==
    IF html = << >> THEN << >>
    ELSE SaveToken(Head(html)) \o StripTags(Tail(html))

\* handleSave: the plain text handed to onSave
SavePlainText(html) ==
    StripTags(StripLeadingBr(UnwrapDivs(CollapseEmptyDivs(html))))

\* buffers the user can leave in the modal editor
ModalBuffers ==
    { <<"x", "<div>", "y", "</div>">> }

\* handleInput: typing in the modal editor
ModalType(html) ==
    /\ ModalHost
    /\ NoPointer
    /\ disabled
    /\ editorHtml' = html
    /\ ModalStep(selectedElementId, editingComponent, components, domTransform, 0)
    /\ UNCHANGED << host, inlineVars, isDraggingRef, allowDragRef, session,
                    initialEditContent, initialEditStyle, scale, gestures >>

\* handleSave (the save button, or handleBackdropClick) -> onSave ->
\* handleContentChange(editingComponent.id, newContent)
ModalSave ==
    /\ ModalHost
    /\ NoPointer
    /\ disabled
    /\ ModalStep(selectedElementId, << >>,
                 handleContentChangeModal(components, editingComponent[1].id,
                                          SavePlainText(editorHtml)),
                 domTransform, 1)
    /\ editorHtml' = << >>
    /\ UNCHANGED << host, inlineVars, isDraggingRef, allowDragRef, session,
                    initialEditContent, initialEditStyle, scale, gestures >>

\* handleBackdropClick with e.target === e.currentTarget: handleSave()
ModalBackdropClick ==
    ModalSave

\* Escape -> onClose -> setEditingComponent(null)
ModalEscape ==
    /\ ModalHost
    /\ NoPointer
    /\ disabled
    /\ ModalStep(selectedElementId, << >>, components, domTransform, 0)
    /\ editorHtml' = << >>
    /\ UNCHANGED << host, inlineVars, isDraggingRef, allowDragRef, session,
                    initialEditContent, initialEditStyle, scale, gestures >>

\* onStyleChange={(newStyle) => handleStyleChange(editingComponent.id, newStyle)}:
\* the list is rewritten and editingComponent replaced by the updated component
StyleChangeModal(comps, editing, newStyle) ==
    [components |-> handleStyleChangeModal(comps, editing[1].id, newStyle),
     editingComponent |->
        IF HasId(comps, editing[1].id)
        THEN <<Comp(handleStyleChangeModal(comps, editing[1].id, newStyle), editing[1].id)>>
        ELSE editing]

\* partial styles the modal toolbar sends: handleColorChange
ModalChanges ==
    { [color |-> Str("#000000")] }

\* further controls of the modal toolbar: handleFontStyleChange with the 'bold'
\* preset of FONT_STYLES, next to handleColorChange
ModalEditChanges ==
    ModalChanges \cup
    { [fontFamily |-> Str("Pretendard, sans-serif"), fontWeight |-> Num(700 * PerPx)] }

\* a style control of the modal toolbar
ModalStyle(newStyle) ==
    /\ ModalHost
    /\ NoPointer
    /\ disabled
    /\ LET r == StyleChangeModal(components, editingComponent, newStyle)
       IN  ModalStep(selectedElementId, r.editingComponent, r.components, domTransform, 1)
    /\ UNCHANGED << host, inlineVars, isDraggingRef, allowDragRef, session,
                    initialEditContent, initialEditStyle, editorHtml, scale, gestures >>

\* handleReset
ModalReset ==
    /\ ModalHost
    /\ NoPointer
    /\ disabled
    /\ editorHtml' = ContentToHtml(initialEditContent)
    /\ LET r == StyleChangeModal(components, editingComponent, initialEditStyle)
       IN  ModalStep(selectedElementId, r.editingComponent, r.components, domTransform, 1)
    /\ UNCHANGED << host, inlineVars, isDraggingRef, allowDragRef, session,
                    initialEditContent, initialEditStyle, scale, gestures >>

ModalStyle1Cases ==
    { [left |-> Pct(50 * PerPx), top |-> Px(100 * PerPx), transform |-> TranslateXCenter,
       width |-> Px(135 * PerPx), fontSize |-> Px(20 * PerPx),
       lineHeight |-> Px(32 * PerPx), color |-> Str("#111")],
      [left |-> Px(10 * PerPx), top |-> Px(20 * PerPx), fontSize |-> Px(16 * PerPx)] }

\* display scales: Math.min(scaleX, scaleY, 1)
DisplayScales ==
    { PerPx, 5 }

----------------------------------------------------------------------------
(* Specifications *)

InitCommon ==
    /\ selectedElementId = Null
    /\ editingElementId = Null
    /\ isToolbarOpen = FALSE
    /\ isDraggingRef = [id \in Ids |-> FALSE]
    /\ allowDragRef = [id \in Ids |-> FALSE]
    /\ session = IdleSession
    /\ editableHtml = << >>
    /\ focused = Null
    /\ editingComponent = << >>
    /\ originalStyle = NoLock
    /\ keyboardOffset = 0
    /\ scrollOffset = 0
    /\ staleRuns = {}
    /\ keyboardWatcher = NoWatcher
    /\ initialEditContent = << >>
    /\ initialEditStyle = << >>
    /\ editorHtml = << >>
    /\ onUpdateCalls = 0
    /\ lastUpdate = << >>
    /\ gestures = 0

\* the page as loaded: no inline style on the root element, the body or #root
PageStyle ==
    [html |-> "", body |-> "", root |-> ""]

InitInlineWith(styles) ==
    /\ host \in {"inline", "zoom"}
    /\ scale = PerPx
    /\ documentStyle = PageStyle
    /\ \E style1 \in styles : components = Template(style1)
    /\ domTransform = [id \in Ids |-> Translate(Position(components, id))]
    /\ InitCommon

InitInline ==
    InitInlineWith(Style1Cases)

InitScale ==
    InitInlineWith(Style1ScaleCases)

InitModalWith(pages) ==
    /\ host = "modal"
    /\ scale \in DisplayScales
    /\ documentStyle \in pages
    /\ \E style1 \in ModalStyle1Cases : components = Template(style1)
    /\ domTransform = [id \in Ids |-> Translate(PositionModal(components, id))]
    /\ InitCommon

InitModal ==
    InitModalWith({PageStyle})

\* drag and tap sessions, selection and inline text editing
NextInline ==
    \/ \E id \in Ids : PointerDown(id)
    \/ \E off \in MoveVectors : PointerMove(off)
    \/ PointerUp
    \/ ReleaseClick
    \/ ReleaseDragEnd
    \/ MoveableUnmount
    \/ FocusTimer
    \/ \E html \in InlineBuffers : TypeInline(html)
    \/ Blur
    \/ BackgroundClick
    \/ ToolbarClose

\* scale gestures and the style toolbar
NextScale ==
    \/ \E id \in Ids : ScaleStart(id)
    \/ \E s \in ScaleFactors : ScaleMove(s)
    \/ ScaleEnd
    \/ \E newStyle \in ToolbarChanges : ToolbarStyle(newStyle)

NextModal ==
    \/ \E id \in Ids : PointerDownModal(id)
    \/ \E off \in MoveVectors : PointerMoveModal(off)
    \/ PointerUpModal
    \/ ReleaseMouseUpModal
    \/ ReleaseDragEndModal
    \/ MoveableUnmountModal
    \/ BackgroundClickModal
    \/ \E html \in ModalBuffers : ModalType(html)
    \/ ModalSave
    \/ ModalEscape
    \/ \E newStyle \in ModalChanges : ModalStyle(newStyle)
    \/ ModalReset

Init ==
    InitInline \/ InitModal

Next ==
    \/ NextInline
    \/ NextModal

\* both hosts: pointer sessions, selection and text editing
Spec ==
    Init /\ [][Next]_vars

\* taps that select an element and the ways out of edit mode
NextSelect ==
    \/ \E id \in Ids : PointerDown(id)
    \/ PointerUp
    \/ ReleaseClick
    \/ ReleaseDragEnd
    \/ MoveableUnmount
    \/ BackgroundClick
    \/ ToolbarClose

\* the inline host with scale gestures and the style toolbar
SpecScale ==
    InitScale /\ [][NextSelect \/ NextScale]_vars

\* the inline host with the spacing sliders of its toolbar
SpecSpacing ==
    InitScale /\ [][NextSelect \/ \E input \in SpacingInputs : ToolbarSpacing(input)]_vars

\* taps that open the text modal
NextOpen ==
    \/ \E id \in Ids : PointerDownModal(id)
    \/ PointerUpModal
    \/ ReleaseMouseUpModal
    \/ ReleaseDragEndModal
    \/ MoveableUnmountModal
    \/ BackgroundClickModal

\* an edit session of the text modal with all its style controls
NextEdit ==
    \/ \E html \in ModalBuffers : ModalType(html)
    \/ ModalSave
    \/ ModalEscape
    \/ \E newStyle \in ModalEditChanges : ModalStyle(newStyle)
    \/ ModalReset

\* the modal host: opening, editing and leaving the text modal
SpecEdit ==
    InitModal /\ [][NextOpen \/ NextEdit]_vars

\* pages the editor can be loaded into: bare, with inline styles of its own on
\* all three elements, and without a #root element
PageStyleCases ==
    { PageStyle,
      [html |-> "overflow: auto", body |-> "margin: 0", root |-> "min-height: 100vh"],
      [html |-> "overflow: auto", body |-> "", root |-> Null] }

InitLock ==
    InitModalWith(PageStyleCases)

\* setEditorMode('inline') of App: GreetingEditorModal unmounts, and with it a
\* mounted TextEditModal, whose effect cleanups run; GreetingEditor mounts
SetEditorModeInline ==
    /\ ModalHost
    /\ host' = "inline"
    /\ scale' = PerPx
    /\ documentStyle' = IF disabled
                        THEN LockCleanup(documentStyle, originalStyle)
                        ELSE documentStyle
    /\ originalStyle' = NoLock
    /\ keyboardOffset' = 0
    /\ scrollOffset' = 0
    /\ keyboardWatcher' = IF disabled THEN WatcherCleanup(keyboardWatcher)
                          ELSE keyboardWatcher
    /\ UNCHANGED staleRuns
    /\ \E style1 \in Style1Cases : components' = Template(style1)
    /\ domTransform' = [id \in Ids |-> Translate(Position(components', id))]
    /\ selectedElementId' = Null
    /\ editingElementId' = Null
    /\ isToolbarOpen' = FALSE
    /\ isDraggingRef' = [id \in Ids |-> FALSE]
    /\ allowDragRef' = [id \in Ids |-> FALSE]
    /\ session' = IdleSession
    /\ editableHtml' = << >>
    /\ focused' = Null
    /\ editingComponent' = << >>
    /\ initialEditContent' = << >>
    /\ initialEditStyle' = << >>
    /\ editorHtml' = << >>
    /\ onUpdateCalls' = 0
    /\ lastUpdate' = << >>
    /\ gestures' = 0

\* setEditorMode('modal') of App: GreetingEditor unmounts with its elements,
\* GreetingEditorModal mounts
SetEditorModeModal ==
    /\ InlineHost
    /\ host' = "modal"
    /\ \E s \in DisplayScales : scale' = s
    /\ \E style1 \in ModalStyle1Cases : components' = Template(style1)
    /\ domTransform' = [id \in Ids |-> Translate(PositionModal(components', id))]
    /\ selectedElementId' = Null
    /\ editingElementId' = Null
    /\ isToolbarOpen' = FALSE
    /\ isDraggingRef' = [id \in Ids |-> FALSE]
    /\ session' = IdleSession
    /\ editableHtml' = << >>
    /\ focused' = Null
    /\ onUpdateCalls' = 0
    /\ lastUpdate' = << >>
    /\ gestures' = 0
    /\ UNCHANGED << allowDragRef, editingComponent, initialEditContent, initialEditStyle,
                    editorHtml, documentStyle, originalStyle, keyboardOffset,
                    scrollOffset, staleRuns, keyboardWatcher >>

\* editableRef.current of element id: the contentEditable is rendered while the
\* element is being edited
editableRefCurrent(id) ==
    InlineHost /\ editingElementId = id

\* the focus timer without its check of the ref
focusTimerCallbackUnguarded(id, foc) ==
    id

\* setTimeout(() => { if (editableRef.current) { editableRef.current.focus(); ... } }, 50)
focusTimerCallback(id, foc) ==
    IF editableRefCurrent(id) THEN id ELSE foc

\* a state setter of TextEditModal: React applies it to a mounted component and
\* drops it once the component is unmounted
setOffset(value, current) ==
    IF ModalHost /\ disabled THEN value ELSE current

\* what updateKeyboardOffset computes from the visual viewport: keyboard down,
\* keyboard up with the page scrolled
ViewportCases ==
    { [offset |-> 0, scrollY |-> 0], [offset |-> 300, scrollY |-> 40] }

\* the focus timer of element id running after the element left edit mode or
\* was unmounted
StaleFocusTimer(id) ==
    /\ ~editableRefCurrent(id)
    /\ NoPointer
    /\ focused' = focusTimerCallback(id, focused)
    /\ staleRuns' = staleRuns \cup {"focus"}
    /\ onUpdateCalls' = 0
    /\ lastUpdate' = << >>
    /\ UNCHANGED << host, components, selectedElementId, editingElementId, isToolbarOpen,
                    isDraggingRef, allowDragRef, domTransform, session, editableHtml,
                    editingComponent, initialEditContent, initialEditStyle, editorHtml,
                    scale, documentStyle, originalStyle, keyboardOffset, scrollOffset,
                    keyboardWatcher, gestures >>

\* one of the timers set by handleFocusIn or handleFocusOut of TextEditModal:
\* setScrollOffset(scrollY); setKeyboardOffset(offset)
KeyboardOffsetTimer(viewport) ==
    /\ NoPointer
    /\ keyboardOffset' = setOffset(viewport.offset, keyboardOffset)
    /\ scrollOffset' = setOffset(viewport.scrollY, scrollOffset)
    /\ staleRuns' = IF ModalHost /\ disabled THEN staleRuns ELSE staleRuns \cup {"keyboard"}
    /\ onUpdateCalls' = 0
    /\ lastUpdate' = << >>
    /\ UNCHANGED << host, components, selectedElementId, editingElementId, isToolbarOpen,
                    isDraggingRef, allowDragRef, domTransform, session, editableHtml,
                    focused, editingComponent, initialEditContent, initialEditStyle,
                    editorHtml, scale, documentStyle, originalStyle, keyboardWatcher,
                    gestures >>

\* setTimeout(() => { moveableRef.current?.updateRect(); }, 0) of onScaleEnd
\* running when the Moveable of element id is no longer mounted
StaleUpdateRectTimer(id) ==
    /\ ~(InlineHost /\ MoveableMounted(id))
    /\ NoPointer
    /\ staleRuns' = staleRuns \cup {"updateRect"}
    /\ onUpdateCalls' = 0
    /\ lastUpdate' = << >>
    /\ UNCHANGED << host, components, selectedElementId, editingElementId, isToolbarOpen,
                    isDraggingRef, allowDragRef, domTransform, session, editableHtml,
                    focused, editingComponent, initialEditContent, initialEditStyle,
                    editorHtml, scale, documentStyle, originalStyle, keyboardOffset,
                    scrollOffset, keyboardWatcher, gestures >>

\* handleFocusIn of the text modal: the interval in the ref is cleared, a new
\* one is set and stored in the ref, and a timeout of 1200 ms is set.  The five
\* setTimeout(updateKeyboardOffset) and the ticks of the interval are runs of
\* KeyboardOffsetTimer.
handleFocusIn ==
    /\ ModalHost
    /\ disabled
    /\ keyboardWatcher.started < MaxFocusIns
    /\ LET w == keyboardWatcher
           id == w.started + 1
       IN  keyboardWatcher' =
              [ref |-> id,
               active |-> (IF w.ref # 0 THEN w.active \ {w.ref} ELSE w.active) \cup {id},
               pending |-> w.pending \cup {id},
               started |-> id]
    /\ onUpdateCalls' = 0
    /\ lastUpdate' = << >>
    /\ UNCHANGED << host, components, selectedElementId, inlineVars, isDraggingRef,
                    allowDragRef, domTransform, session, editingComponent,
                    initialEditContent, initialEditStyle, editorHtml, scale,
                    documentStyle, originalStyle, keyboardOffset, scrollOffset,
                    staleRuns, gestures >>

\* handleFocusOut of the text modal: the interval in the ref is cleared and the
\* ref set to null.  Its timeout that resets the offsets is a run of
\* KeyboardOffsetTimer.
handleFocusOut ==
    /\ ModalHost
    /\ disabled
    /\ keyboardWatcher.started > 0
    /\ LET w == keyboardWatcher
       IN  keyboardWatcher' =
              [w EXCEPT !.ref = 0,
                        !.active = IF w.ref # 0 THEN w.active \ {w.ref} ELSE w.active]
    /\ onUpdateCalls' = 0
    /\ lastUpdate' = << >>
    /\ UNCHANGED << host, components, selectedElementId, inlineVars, isDraggingRef,
                    allowDragRef, domTransform, session, editingComponent,
                    initialEditContent, initialEditStyle, editorHtml, scale,
                    documentStyle, originalStyle, keyboardOffset, scrollOffset,
                    staleRuns, gestures >>

\* the focus-in whose 1200 ms timeout runs next: the timeouts have the same
\* delay and run in the order they were set
NextTimeout(w) ==
    CHOOSE id \in w.pending : \A other \in w.pending : id <= other

\* the 1200 ms timeout of handleFocusIn: if the ref holds an interval, it is
\* cleared and the ref set to null
WatcherTimeout ==
    /\ keyboardWatcher.pending # {}
    /\ LET w == keyboardWatcher
       IN  keyboardWatcher' =
              [w EXCEPT !.ref = 0,
                        !.active = IF w.ref # 0 THEN w.active \ {w.ref} ELSE w.active,
                        !.pending = w.pending \ {NextTimeout(w)}]
    /\ onUpdateCalls' = 0
    /\ lastUpdate' = << >>
    /\ UNCHANGED << host, components, selectedElementId, inlineVars, isDraggingRef,
                    allowDragRef, domTransform, session, editingComponent,
                    initialEditContent, initialEditStyle, editorHtml, scale,
                    documentStyle, originalStyle, keyboardOffset, scrollOffset,
                    staleRuns, gestures >>

\* timer callbacks; a timer runs at any time after it was set
NextTimers ==
    \/ FocusTimer
    \/ \E id \in Ids : StaleFocusTimer(id)
    \/ \E viewport \in ViewportCases : KeyboardOffsetTimer(viewport)
    \/ \E id \in Ids : StaleUpdateRectTimer(id)

\* entering and leaving edit mode, the text modal and either editor, with the
\* timers these leave behind
SpecTimers ==
    Init /\ [][NextSelect \/ NextOpen \/ ModalSave \/ ModalEscape
                \/ SetEditorModeInline \/ SetEditorModeModal \/ NextTimers]_vars

\* the text modal opened and closed, with the focus events in it and the
\* timers of its keyboard effect
SpecKeyboard ==
    Init /\ [][NextOpen \/ ModalSave \/ ModalEscape \/ SetEditorModeInline
                \/ SetEditorModeModal \/ handleFocusIn \/ handleFocusOut
                \/ WatcherTimeout
                \/ \E viewport \in ViewportCases : KeyboardOffsetTimer(viewport)]_vars

\* the text modal on every page, with every way out of it
SpecLock ==
    InitLock /\ [][NextOpen \/ NextEdit \/ SetEditorModeInline]_vars

\* what one keystroke or paste leaves in a contentEditable: a character, a line
\* break, an empty line in a block of its own, a line in a block of its own
Pieces ==
    { <<"x">>, <<"<br>">>, <<"<div>", "<br>", "</div>">>, <<"<div>", "y", "</div>">> }

\* innerHTML of an edit buffer made of at most n pieces
RECURSIVE BuffersOf(_)
BuffersOf(n) ==
    IF n = 0 THEN { << >> }
    ELSE BuffersOf(n - 1) \cup { b \o p : b \in BuffersOf(n - 1), p \in Pieces }

TextBuffers ==
    BuffersOf(MaxPieces)

\* edit sessions of both hosts over every buffer: enter, type, save
NextText ==
    \/ \E id \in Ids : PointerDown(id)
    \/ PointerUp
    \/ ReleaseClick
    \/ ReleaseDragEnd
    \/ MoveableUnmount
    \/ FocusTimer
    \/ \E html \in TextBuffers : TypeInline(html)
    \/ Blur
    \/ \E id \in Ids : PointerDownModal(id)
    \/ PointerUpModal
    \/ ReleaseMouseUpModal
    \/ ReleaseDragEndModal
    \/ MoveableUnmountModal
    \/ \E html \in TextBuffers : ModalType(html)
    \/ ModalSave

\* the text transforms of both hosts on every buffer
SpecText ==
    Init /\ [][NextText]_vars

\* inputs of the commit runs: one drag vector, one scale factor
CommitMoves ==
    { <<MaxMove, 0>> }

CommitFactors ==
    { PerPx + 5 }

\* every handler that commits a mutation, in both hosts, and the steps that
\* lead to it
NextCommit ==
    \/ \E id \in Ids : PointerDown(id)
    \/ PointerUp
    \/ ReleaseClick
    \/ ReleaseDragEnd
    \/ MoveableUnmount
    \/ FocusTimer
    \/ \E html \in InlineBuffers : TypeInline(html)
    \/ Blur
    \/ \E id \in Ids : ScaleStart(id)
    \/ \E s \in CommitFactors : ScaleMove(s)
    \/ ScaleEnd
    \/ \E newStyle \in ToolbarChanges : ToolbarStyle(newStyle)
    \/ \E newStyle \in ToolbarChanges : StyleCallNoToolbar(newStyle)
    \/ \E id \in Ids : PointerDownModal(id)
    \/ \E off \in CommitMoves : PointerMoveModal(off)
    \/ PointerUpModal
    \/ ReleaseMouseUpModal
    \/ ReleaseDragEndModal
    \/ MoveableUnmountModal
    \/ \E html \in ModalBuffers : ModalType(html)
    \/ ModalSave
    \/ \E newStyle \in ModalEditChanges : ModalStyle(newStyle)

\* both hosts: position, scale, content and style commits
SpecCommit ==
    Init /\ [][NextCommit]_vars

\* drags that leave the canvas on every side, and the way back to the start
BoundMoves ==
    { <<-CanvasWidth, CanvasHeight>>, <<CanvasWidth, -CanvasHeight>>, <<0, 0>> }

\* pointer sessions of both hosts with drags across the canvas edges
NextBounds ==
    \/ \E id \in Ids : PointerDown(id)
    \/ \E off \in BoundMoves : PointerMove(off)
    \/ PointerUp
    \/ ReleaseClick
    \/ ReleaseDragEnd
    \/ MoveableUnmount
    \/ \E id \in Ids : PointerDownModal(id)
    \/ \E off \in BoundMoves : PointerMoveModal(off)
    \/ PointerUpModal
    \/ ReleaseMouseUpModal
    \/ ReleaseDragEndModal
    \/ MoveableUnmountModal

SpecBounds ==
    Init /\ [][NextBounds]_vars

----------------------------------------------------------------------------
(* Properties *)

\* the element being edited, Null when none is
EditingId ==
    IF host = "modal"
    THEN IF disabled THEN editingComponent[1].id ELSE Null
    ELSE editingElementId

\* a pointer session (press, moves, release) whose release callbacks have all run
PointerSessionOver ==
    session.phase = "done" /\ session.kind = "pointer"

Clamp(val, lo, hi) ==
    Max(lo, Min(hi, val))

\* C1: in every reachable state of either host, if an element is being edited
\* then the selected element is that element (the editors keep one editing
\* slot, so at most one element is being edited).
C1_EditingImpliesSelected ==
    EditingId # Null => selectedElementId = EditingId

\* C1 witness: a finished session has left the second element edited and selected.
C1_Witness ==
    /\ session.phase = "done"
    /\ EditingId = "e2"
    /\ selectedElementId = "e2"

\* C2 as stated: a pointer session that never moved more than 5 px on either
\* axis ends as a tap and commits no position (no list replacement, no onUpdate).
C2_UnmovedSessionIsTapOnly ==
    (PointerSessionOver /\ ~session.moved) =>
        (session.tapped /\ session.commits = 0)

\* C3 as stated: a pointer session that moved more than 5 px runs the position
\* commit at release and is never also taken as a tap, in either callback order.
C3_DragCommitsAndNeverTaps ==
    (PointerSessionOver /\ session.moved) =>
        (session.commits >= 1 /\ ~session.tapped)

\* C4 as stated: no position commit happens before the pointer is released, and
\* a released session that moved more than 5 px has made exactly one commit.
C4_ExactlyOneCommitPerDrag ==
    /\ session.phase = "down" => session.commits = 0
    /\ (PointerSessionOver /\ session.moved) => session.commits = 1

\* C5: once a session has committed its element to (x, y), the stored style
\* has left = x px, top = y px and no transform value, and is not the centered
\* sentinel, whatever the style was before.
C5_CommitWritesPxAndClearsTransform ==
    (session.kind = "pointer" /\ session.commits > 0) =>
        LET st == Comp(components, session.el).style
        IN  /\ Get(st, "left") = Px(session.at[1])
            /\ Get(st, "top") = Px(session.at[2])
            /\ Get(st, "transform") = Undefined
            /\ ~IsCentered(st)

\* C5 witness: an element loaded with the centered sentinel has been dragged
\* more than 5 px and committed.
C5_Witness ==
    /\ PointerSessionOver
    /\ session.el = "e1"
    /\ session.moved
    /\ session.commits = 1
    /\ Get(Comp(components, "e1").style, "left").u = "px"
    /\ "transform" \in DOMAIN Comp(components, "e1").style

C7_LineHeightFollowsFontSize ==
    [][(ScaleEnd /\ host = "inline"
          /\ Get(Comp(components, session.el).style, "lineHeight").u = "px") =>
         LET st0 == Comp(components, session.el).style
             st1 == Comp(components', session.el).style
             fontSize0 == ParseFloatOr(Get(st0, "fontSize"), DefaultFontSize * PerPx)
             fontSize1 == Get(st1, "fontSize").v
         IN  Get(st1, "lineHeight") =
                Px(RoundDiv(Get(st0, "lineHeight").v * fontSize1, fontSize0))]_vars

\* C7 witness: fontSize 20px with lineHeight 32px was scaled to 30px and 48px.
C7_Witness ==
    /\ session.phase = "done"
    /\ session.kind = "scale"
    /\ Get(Comp(components, "e1").style, "fontSize") = Px(30 * PerPx)
    /\ Get(Comp(components, "e1").style, "lineHeight") = Px(48 * PerPx)

\* C8 as stated: a scale gesture released with factor 0 or with no scale event
\* leaves fontSize, width and lineHeight in the store as they were and does not
\* invoke onUpdate.
C8_ZeroScaleCommitsNothing ==
    [][(ScaleEnd /\ (~session.hasLast \/ session.lastScale = 0)) =>
         LET st0 == Comp(components, session.el).style
             st1 == Comp(components', session.el).style
         IN  /\ Get(st1, "fontSize") = Get(st0, "fontSize")
             /\ Get(st1, "width") = Get(st0, "width")
             /\ Get(st1, "lineHeight") = Get(st0, "lineHeight")
             /\ onUpdateCalls' = 0]_vars

\* content made of two non-empty lines separated by one newline
TwoLines(content) ==
    \E i \in 2..(Len(content) - 1) :
        \A j \in 1..Len(content) : (content[j] = "\n") <=> (j = i)

\* C9: saving a modal edit session whose buffer is the unedited one (the stored
\* content with a <br> for its newline) stores the same two-line content.
C9_UneditedSaveKeepsContent ==
    [][(ModalSave
          /\ TwoLines(Comp(components, editingComponent[1].id).content)
          /\ Len(editorHtml) = Len(Comp(components, editingComponent[1].id).content)
          /\ \A i \in DOMAIN editorHtml :
                editorHtml[i] =
                    IF Comp(components, editingComponent[1].id).content[i] = "\n"
                    THEN "<br>"
                    ELSE Comp(components, editingComponent[1].id).content[i]) =>
         Comp(components', editingComponent[1].id).content =
            Comp(components, editingComponent[1].id).content]_vars

\* C9 witness: a session opened by a tap on the two-line element was saved and
\* the stored content is the snapshot taken at open.
C9_Witness ==
    /\ host = "modal"
    /\ ~disabled
    /\ onUpdateCalls = 1
    /\ PointerSessionOver
    /\ session.tapped
    /\ session.el = "e1"
    /\ initialEditContent = <<"a", "\n", "b">>
    /\ Comp(components, "e1").content = initialEditContent

\* C10 as stated: Reset leaves the snapshot content in the edit buffer and the
\* snapshot color on the component, and a Save of that buffer stores the
\* snapshot content.
C10_ResetRestoresContentAndColor ==
    [][/\ ModalReset =>
            /\ editorHtml' = ContentToHtml(initialEditContent)
            /\ Get(Comp(components', editingComponent[1].id).style, "color") =
                  Get(initialEditStyle, "color")
       /\ (ModalSave /\ editorHtml = ContentToHtml(initialEditContent)) =>
            Comp(components', editingComponent[1].id).content = initialEditContent]_vars

\* C11 as stated: Reset leaves the component with exactly the snapshot style:
\* every field of the snapshot has its snapshot value and a field the snapshot
\* did not have (fontWeight set by a font preset during the session) is gone.
C11_ResetRestoresWholeStyle ==
    [][ModalReset =>
         Comp(components', editingComponent[1].id).style = initialEditStyle]_vars

\* C12 as stated: closing the text modal with Escape leaves the component with
\* the content and the style of the snapshot taken when the modal was opened,
\* whatever was typed and whatever style controls were used in between.
C12_EscapeLeavesSnapshot ==
    [][ModalEscape =>
         /\ Comp(components', editingComponent[1].id).content = initialEditContent
         /\ Comp(components', editingComponent[1].id).style = initialEditStyle]_vars

\* a handler that commits a mutation has run
Committed ==
    \/ ReleaseDragEnd
    \/ ScaleEnd /\ host = "inline"
    \/ Blur
    \/ \E newStyle \in ToolbarChanges : ToolbarStyle(newStyle)
    \/ ReleaseDragEndModal /\ session'.commits > session.commits
    \/ ModalSave
    \/ \E newStyle \in ModalEditChanges : ModalStyle(newStyle)

\* C13: every handler that commits a position, scale, content or style
\* mutation, and every step that changes the stored list, invokes onUpdate
\* exactly once, with the whole list (one entry per component) that becomes
\* the stored list; no other step invokes it.
C13_UpdateCarriesStoredList ==
    [][/\ (Committed \/ components' # components) <=> onUpdateCalls' = 1
       /\ onUpdateCalls' \in {0, 1}
       /\ onUpdateCalls' = 1 =>
            /\ lastUpdate' = components'
            /\ Len(lastUpdate') = Len(components)
            /\ \A i \in 1..Len(components) : lastUpdate'[i].id = components[i].id]_vars

\* C13 witness: a scale commit of the inline host took the first element from
\* 20px to 30px and onUpdate received the list that is now stored.
C13_Witness ==
    /\ host = "inline"
    /\ session.phase = "done"
    /\ session.kind = "scale"
    /\ onUpdateCalls = 1
    /\ lastUpdate = components
    /\ Get(Comp(components, "e1").style, "fontSize") = Px(30 * PerPx)

\* new is old with the fields of partial overwritten and nothing else touched
MergedInto(old, new, partial) ==
    /\ DOMAIN new = DOMAIN old \cup DOMAIN partial
    /\ \A k \in DOMAIN partial : new[k] = partial[k]
    /\ \A k \in DOMAIN old \ DOMAIN partial : new[k] = old[k]

\* the step changed the style of component id by merging partial into it and
\* changed nothing else in the list
StyleMergedAt(id, partial) ==
    /\ Len(components') = Len(components)
    /\ \A i \in 1..Len(components) :
          IF components[i].id = id
          THEN /\ MergedInto(components[i].style, components'[i].style, partial)
               /\ components'[i].id = components[i].id
               /\ components'[i].type = components[i].type
               /\ components'[i].content = components[i].content
          ELSE components'[i] = components[i]

\* C14: a style change of the inline toolbar is merged into the style of the
\* selected component, one of the modal toolbar into the style of the edited
\* component: the named fields take the new values, every other field and
\* every other component keep theirs; the inline handler run with no element
\* selected leaves the list as it is and does not invoke onUpdate.
C14_StyleChangeMergesShallowly ==
    [][/\ \A newStyle \in ToolbarChanges :
            ToolbarStyle(newStyle) => StyleMergedAt(selectedElementId, newStyle)
       /\ \A newStyle \in ModalEditChanges :
            ModalStyle(newStyle) => StyleMergedAt(editingComponent[1].id, newStyle)
       /\ \A newStyle \in ToolbarChanges :
            (StyleCallNoToolbar(newStyle) /\ selectedElementId = Null) =>
                (components' = components /\ onUpdateCalls' = 0)]_vars

\* C14 witness: the toolbar set the color of the first element of the inline
\* host, whose font size is the one it was loaded with.
C14_Witness ==
    /\ host = "inline"
    /\ selectedElementId = "e1"
    /\ editingElementId = "e1"
    /\ onUpdateCalls = 1
    /\ Get(Comp(components, "e1").style, "color") = Str("#000000")
    /\ Get(Comp(components, "e1").style, "fontSize") = Px(20 * PerPx)
    /\ Get(Comp(components, "e1").style, "left") = Pct(50 * PerPx)

\* C15: in every reachable state of the inline editor (either variant), if the
\* toolbar is open then some element is selected.
C15_ToolbarOpenImpliesSelected ==
    (InlineHost /\ isToolbarOpen) => selectedElementId # Null

\* C15 witness: the toolbar is open on the second element, whose edit was
\* ended by a blur.
C15_Witness ==
    /\ host = "inline"
    /\ isToolbarOpen
    /\ selectedElementId = "e2"
    /\ editingElementId = Null
    /\ session.phase = "done"

\* C16 as stated: in the inline host, the commit of a drag (more than 5 px) of
\* the selected element leaves no element selected.
C16_InlineDragCommitDeselects ==
    [][(ReleaseDragEnd /\ session.moved /\ selectedElementId = session.el) =>
         selectedElementId' = Null]_vars

\* the step in which the last release callback of a pointer session runs
Released ==
    session.phase = "up" /\ session'.phase = "done"

C18_TapSelectsAndEdits ==
    [][/\ (ReleaseClick /\ ~session.moved /\ selectedElementId = Null
             /\ editingElementId = Null /\ ~isToolbarOpen) =>
            /\ selectedElementId' = session.el
            /\ editingElementId' = session.el
            /\ isToolbarOpen'
       /\ (ReleaseMouseUpModal /\ ~session.moved /\ editingComponent = << >>) =>
            /\ selectedElementId' = session.el
            /\ editingComponent' = <<Comp(components, session.el)>>
            /\ initialEditContent' = Comp(components, session.el).content
            /\ initialEditStyle' = Comp(components, session.el).style
            /\ editorHtml' = ContentToHtml(Comp(components, session.el).content)
            /\ components' = components]_vars

\* C18 witness: the first pointer session of the inline host was a tap on the
\* second element, which is now selected and edited with the toolbar open.
C18_Witness ==
    /\ host = "inline"
    /\ gestures = 1
    /\ PointerSessionOver
    /\ ~session.moved
    /\ session.tapped
    /\ selectedElementId = "e2"
    /\ editingElementId = "e2"
    /\ isToolbarOpen

\* C19 as stated: a tap on the background (the page background of either host,
\* or the backdrop of the open text modal, which is all the background there
\* is while it is open) leaves no element selected, no element edited and no
\* toolbar or text modal open.
C19_BackgroundTapLeadsToIdle ==
    [][(BackgroundClick \/ BackgroundClickModal \/ ModalBackdropClick) =>
         /\ selectedElementId' = Null
         /\ editingElementId' = Null
         /\ editingComponent' = << >>
         /\ ~isToolbarOpen']_vars

\* C20: a tap on the background while an element is edited ends the edit with
\* the text of the edit buffer stored as the content of that element: in the
\* inline host what handleBlur makes of the contentEditable, in the modal host
\* (tap on the backdrop of the text modal) what handleSave makes of the editor.
C20_BackgroundTapFlushesBuffer ==
    [][/\ (BackgroundClick /\ editingElementId # Null) =>
            /\ editingElementId' = Null
            /\ Comp(components', editingElementId).content =
                  BlurPlainText(editableHtml)
       /\ ModalBackdropClick =>
            /\ editingComponent' = << >>
            /\ Comp(components', editingComponent[1].id).content =
                  SavePlainText(editorHtml)]_vars

\* C20 witness: text typed into the first element of the inline host was
\* stored by a background tap, which left nothing selected or edited.
C20_Witness ==
    /\ host = "inline"
    /\ selectedElementId = Null
    /\ editingElementId = Null
    /\ ~isToolbarOpen
    /\ onUpdateCalls = 1
    /\ Comp(components, "e1").content # <<"a", "\n", "b">>
    /\ Head(Comp(components, "e1").content) = "x"

\* the step leaves the position and the width of component id as stored
PlacementKept(id) ==
    /\ Get(Comp(components', id).style, "left") = Get(Comp(components, id).style, "left")
    /\ Get(Comp(components', id).style, "top") = Get(Comp(components, id).style, "top")
    /\ Get(Comp(components', id).style, "width") = Get(Comp(components, id).style, "width")
    /\ Get(Comp(components', id).style, "transform") =
          Get(Comp(components, id).style, "transform")

\* C21: no step taken while an element is edited inline commits a position or
\* a size for that element (its left, top, width and transform stay as stored
\* and its font size changes only through the toolbar), and no step taken
\* while the text modal is open changes the selection or the placement of
\* any element.
C21_NoGestureCommitWhileEditing ==
    [][/\ \A id \in Ids :
            (InlineHost /\ editingElementId = id) =>
                /\ PlacementKept(id)
                /\ ~(ReleaseDragEnd /\ session.el = id)
                /\ ~(ScaleEnd /\ session.el = id)
                /\ \/ Get(Comp(components', id).style, "fontSize") =
                         Get(Comp(components, id).style, "fontSize")
                   \/ \E newStyle \in ToolbarChanges : ToolbarStyle(newStyle)
       /\ (ModalHost /\ disabled) =>
            /\ selectedElementId' = selectedElementId
            /\ session'.commits = session.commits
            /\ \A id \in Ids : PlacementKept(id)]_vars

\* C21 witness: while the first element is edited inline a scale gesture on
\* the second was committed, and the first has the placement it was loaded with.
C21_Witness ==
    /\ host = "inline"
    /\ editingElementId = "e1"
    /\ session.phase = "done"
    /\ session.kind = "scale"
    /\ session.el = "e2"
    /\ session.commits = 1
    /\ \E style1 \in Style1Cases :
          /\ Get(Comp(components, "e1").style, "left") = Get(style1, "left")
          /\ Get(Comp(components, "e1").style, "width") = Get(style1, "width")

\* C22: while the text modal is open, a style control writes its fields into
\* the stored component in the same step and reports the new list through
\* onUpdate; typing changes only the edit buffer (no list change, no
\* onUpdate); and up to the save the stored content of the edited component
\* is the content it had when the modal was opened.
C22_StyleImmediateContentBuffered ==
    [][/\ \A newStyle \in ModalEditChanges :
            ModalStyle(newStyle) =>
                /\ \A k \in DOMAIN newStyle :
                      Get(Comp(components', editingComponent[1].id).style, k) = newStyle[k]
                /\ editingComponent' = <<Comp(components', editingComponent[1].id)>>
                /\ onUpdateCalls' = 1
                /\ lastUpdate' = components'
       /\ (\E html \in ModalBuffers : ModalType(html)) =>
            /\ components' = components
            /\ onUpdateCalls' = 0
       /\ (ModalHost /\ disabled /\ ~ModalSave) =>
            Comp(components', editingComponent[1].id).content = initialEditContent]_vars

\* C22 witness: with text typed into the editor, a color change is in the
\* stored style of the edited element while its stored content is still the
\* content at open.
C22_Witness ==
    /\ host = "modal"
    /\ disabled
    /\ editingComponent[1].id = "e1"
    /\ editorHtml \in ModalBuffers
    /\ onUpdateCalls = 1
    /\ Get(Comp(components, "e1").style, "color") = Str("#000000")
    /\ Comp(components, "e1").content = <<"a", "\n", "b">>
    /\ initialEditContent = <<"a", "\n", "b">>

\* the step replaced the content of component id by text and changed nothing
\* else in the list
ContentReplacedAt(id, text) ==
    /\ Len(components') = Len(components)
    /\ \A i \in 1..Len(components) :
          IF components[i].id = id
          THEN /\ components'[i].content = text
               /\ components'[i].style = components[i].style
               /\ components'[i].id = components[i].id
               /\ components'[i].type = components[i].type
          ELSE components'[i] = components[i]

\* C23: a save (handleSave of the text modal, handleBlur of the inline
\* contentEditable) leaves no element edited and stores the transformed plain
\* text of the edit buffer as the content of the edited component, whose
\* style and every other component stay as they were.
C23_SaveReplacesContentOnly ==
    [][/\ ModalSave =>
            /\ editingComponent' = << >>
            /\ ContentReplacedAt(editingComponent[1].id, SavePlainText(editorHtml))
       /\ Blur =>
            /\ editingElementId' = Null
            /\ ContentReplacedAt(focused, BlurPlainText(editableHtml))]_vars

\* C23 witness: the typed buffer x<div>y</div> was saved from the text modal
\* as two lines; the second element is as loaded.
C23_Witness ==
    /\ host = "modal"
    /\ ~disabled
    /\ onUpdateCalls = 1
    /\ Comp(components, "e1").content = <<"x", "\n", "y">>
    /\ Comp(components, "e2") = Template(Style2)[2]

\* C24: from scale start until release no step touches the store: scale start
\* and every scale move leave the component list as it is and invoke no
\* onUpdate; a scale move changes only the transform of the scaled element
\* (its translation is the stored position, its scale the reported factor);
\* scale end leaves a transform without a scale part, and outside a scale
\* gesture no element's transform has one.
C24_LiveScaleLeavesStoreAlone ==
    [][/\ ((\E id \in Ids : ScaleStart(id)) \/ (\E s \in ScaleFactors : ScaleMove(s))) =>
            /\ components' = components
            /\ onUpdateCalls' = 0
       /\ \A s \in ScaleFactors :
            ScaleMove(s) =>
                /\ domTransform'[session.el] =
                      [x |-> Position(components, session.el).x,
                       y |-> Position(components, session.el).y,
                       s |-> s]
                /\ \A id \in Ids \ {session.el} : domTransform'[id] = domTransform[id]
       /\ ScaleEnd => domTransform'[session.el].s = NoScale
       /\ session'.phase # "scaling" => \A id \in Ids : domTransform'[id].s = NoScale]_vars

\* C24 witness: a scale gesture on the first element has had a move at factor
\* 1.5; the element is shown scaled and the list is the one loaded.
C24_Witness ==
    /\ session.phase = "scaling"
    /\ session.el = "e1"
    /\ session.hasLast
    /\ domTransform["e1"].s = PerPx + 5
    /\ \E style1 \in Style1ScaleCases : components = Template(style1)

\* the step is a drag commit of either host
DragCommit ==
    \/ ReleaseDragEnd
    \/ ReleaseDragEndModal /\ session'.commits > session.commits

\* C26: every drag commit, in either host and at either display scale, stores
\* a top in pixels between 0 and the canvas height, and stores as left the
\* pointer's horizontal travel from the start position in canvas pixels,
\* whatever its sign and size.
C26_CommittedTopWithinCanvas ==
    [][DragCommit =>
         LET st == Comp(components', session.el).style
             x == session.start.x + session.off[1] * PerPx
         IN  /\ Get(st, "top").u = "px"
             /\ Get(st, "top").v >= 0
             /\ Get(st, "top").v <= CanvasHeight * PerPx
             /\ Get(st, "left") = Px(IF ModalHost THEN (x * PerPx) \div scale ELSE x)]_vars

\* C26 witness: at display scale 0.5 the first element was dropped left of the
\* canvas at its bottom edge and the second right of the canvas at its top edge.
C26_Witness ==
    /\ host = "modal"
    /\ scale = 5
    /\ PointerSessionOver
    /\ Get(Comp(components, "e1").style, "left").v < 0
    /\ Get(Comp(components, "e1").style, "top") = Px(CanvasHeight * PerPx)
    /\ Get(Comp(components, "e2").style, "left").v > CanvasWidth * PerPx
    /\ Get(Comp(components, "e2").style, "top") = Px(0)

\* C27 as stated: a fontSize or lineHeight that does not parse as a number is
\* replaced by its default wherever it is read, so no component of the store
\* ever holds a NaN fontSize, width or lineHeight.
C27_NoCommitStoresNaN ==
    \A i \in 1..Len(components) :
        \A key \in {"fontSize", "width", "lineHeight"} :
            Get(components[i].style, key) # NaNPx

\* C28: whatever inline styles the document root, the body and #root had when
\* the editor was loaded, they have exactly those whenever no text modal is
\* mounted: Save, the backdrop, Escape and the unmount of the editor each
\* restore what the lock taken at open had replaced.
C28_LockReleasedOnEveryExit ==
    \A page \in PageStyleCases :
        (documentStyle = page) => [](editingComponent = << >> => documentStyle = page)

\* C28 witness: on the page with inline styles of its own a text modal was
\* opened and left, and the three styles are the page's again.
C28_Witness ==
    /\ ModalHost
    /\ ~disabled
    /\ initialEditContent # << >>
    /\ documentStyle.root = "min-height: 100vh"
    /\ documentStyle.body = "margin: 0"

\* everything but the record of the step itself is as it was
ProgramStateKept ==
    UNCHANGED << host, components, selectedElementId, editingElementId, isToolbarOpen,
                 isDraggingRef, allowDragRef, domTransform, session, editableHtml,
                 focused, editingComponent, initialEditContent, initialEditStyle,
                 editorHtml, scale, documentStyle, originalStyle, keyboardOffset,
                 scrollOffset, keyboardWatcher, gestures >>

\* a timer callback ran in this step and its owner was already torn down
StaleTimerRan ==
    \/ \E id \in Ids : StaleFocusTimer(id)
    \/ \E id \in Ids : StaleUpdateRectTimer(id)
    \/ \E viewport \in ViewportCases :
           KeyboardOffsetTimer(viewport) /\ ~(ModalHost /\ disabled)

\* C29: a focus timer, keyboard-offset timer or updateRect timer that runs
\* after its element left edit mode, its text modal was closed or its editor
\* was unmounted changes no state and invokes no onUpdate.
C29_StaleTimerIsNoOp ==
    [][StaleTimerRan => (ProgramStateKept /\ onUpdateCalls' = 0)]_vars

\* C29 witness: in the inline editor an element was tapped into edit mode and
\* has left it, no text modal is mounted, and a timer of each kind has run
\* after its owner was gone, leaving focus and offsets as they were.
C29_Witness ==
    /\ InlineHost
    /\ gestures > 0
    /\ PointerSessionOver
    /\ editingElementId = Null
    /\ focused = Null
    /\ staleRuns = {"focus", "keyboard", "updateRect"}
    /\ keyboardOffset = 0
    /\ scrollOffset = 0

\* C30 as stated: the drag classification is latched. While the pointer is
\* down, an element classified as dragging stays so; a session that moved more
\* than 5 px and is released back within 5 px of its origin has, once both
\* release callbacks have run, committed a position and not been taken as a tap.
C30_LatchedDragCommitsAndIsNoTap ==
    [][/\ (session.phase = "down" /\ session'.phase = "down"
            /\ isDraggingRef[session.el]) => isDraggingRef'[session.el]
       /\ (Released /\ session.kind = "pointer" /\ session.moved
            /\ ~Exceeds(session.off)) =>
              (session'.commits >= 1 /\ ~session'.tapped)]_vars

\* number of newlines of a plain text
RECURSIVE Newlines(_)
Newlines(text) ==
    IF text = << >> THEN 0
    ELSE (IF Head(text) = "\n" THEN 1 ELSE 0) + Newlines(Tail(text))

\* C31 as stated: the inline blur stores the plain text the modal save makes
\* of the same buffer, and a buffer ending in an empty line wrapped as
\* <div><br></div> is stored with one newline for it by either.
C31_SaveAndBlurSamePlainText ==
    [][/\ Blur =>
            /\ Comp(components', focused).content = SavePlainText(editableHtml)
            /\ (editableHtml = <<"x", "<div>", "<br>", "</div>">> =>
                    Newlines(Comp(components', focused).content) = 1)
       /\ ModalSave =>
            (editorHtml = <<"x", "<div>", "<br>", "</div>">> =>
                Newlines(Comp(components', editingComponent[1].id).content) = 1)]_vars

\* number of <br> of a buffer
RECURSIVE Breaks(_)
Breaks(html) ==
    IF html = << >> THEN 0
    ELSE (IF Head(html) = "<br>" THEN 1 ELSE 0) + Breaks(Tail(html))

\* C32 as stated: a save removes at most one line break, from the start of the
\* buffer (a buffer of characters and <br> only is stored with all its line
\* breaks or all but one), and a save of the unedited buffer stores the content
\* the session was opened on, also when that content begins with a newline.
C32_SaveTrimsOnceAndKeepsStoredNewline ==
    [][ModalSave =>
         LET id == editingComponent[1].id
         IN  /\ (\A i \in DOMAIN editorHtml : editorHtml[i] \notin {"<div>", "</div>"}) =>
                    Newlines(Comp(components', id).content) >= Breaks(editorHtml) - 1
             /\ editorHtml = ContentToHtml(Comp(components, id).content) =>
                    Comp(components', id).content = Comp(components, id).content]_vars

\* C33 as stated: in the modal host a committed drag released at the on-screen
\* translation (x, y) under display scale k stores left = x / k and top = y / k
\* in px, the element is then rendered at (x, y) again, and a committed session
\* released where it started leaves the canvas position of its element
\* (the left and top the renderer reads from the style) as it was.
C33_StoredPositionIndependentOfScale ==
    [][(ModalHost /\ DragCommit) =>
         LET id == session.el
             st == Comp(components', id).style
             x == domTransform[id].x
             y == domTransform[id].y
         IN  /\ Get(st, "left") = Px((x * PerPx) \div scale)
             /\ Get(st, "top") = Px((y * PerPx) \div scale)
             /\ PositionModal(components', id) = [x |-> x, y |-> y]
             /\ (x = session.start.x /\ y = session.start.y) =>
                    /\ RenderLeft(st) = RenderLeft(Comp(components, id).style)
                    /\ RenderTop(st) = RenderTop(Comp(components, id).style)]_vars

\* the step kept the list's length, order, ids and types, left every component
\* but id as it was, and within id changed at most the style fields keys and,
\* if contentToo, the content
OnlyChanged(id, keys, contentToo) ==
    /\ Len(components') = Len(components)
    /\ \A i \in 1..Len(components) :
          /\ components'[i].id = components[i].id
          /\ components'[i].type = components[i].type
          /\ components[i].id # id => components'[i] = components[i]
          /\ contentToo \/ components'[i].content = components[i].content
          /\ \A k \in ((DOMAIN components[i].style) \cup (DOMAIN components'[i].style)) \ keys :
                Get(components'[i].style, k) = Get(components[i].style, k)

\* an id no component of the list has
AbsentId ==
    "e3"

\* every commit handler applied to an id that is not in the list returns the
\* list it was given
AbsentIdChangesNothing ==
    /\ handlePositionChange(components, AbsentId, 0, 0) = components
    /\ handleContentChange(components, AbsentId, <<"x">>) = components
    /\ handleStyleChange(components, AbsentId, [color |-> Str("#000000")]) = components
    /\ handleFontSizeChange(components, AbsentId, Px(MinFontSize * PerPx),
                            Px(MinWidth * PerPx)) = components
    /\ handlePositionChangeModal(components, AbsentId, 0, 0) = components
    /\ handleContentChangeModal(components, AbsentId, <<"x">>) = components
    /\ handleStyleChangeModal(components, AbsentId, [color |-> Str("#000000")]) = components

\* C34: every commit keeps the list's length, order and ids and changes only
\* its target: a position commit only left, top and transform, a scale commit
\* only fontSize, width and lineHeight, a content commit only the content, a
\* style commit only the fields it was given; a commit handler given an id
\* that is not in the list changes no component.
C34_CommitChangesOnlyItsTarget ==
    [][/\ AbsentIdChangesNothing
       /\ DragCommit => OnlyChanged(session.el, {"left", "top", "transform"}, FALSE)
       /\ ScaleEnd => OnlyChanged(session.el, {"fontSize", "width", "lineHeight"}, FALSE)
       /\ Blur => OnlyChanged(focused, {}, TRUE)
       /\ ModalSave => OnlyChanged(editingComponent[1].id, {}, TRUE)
       /\ \A newStyle \in ToolbarChanges :
             /\ ToolbarStyle(newStyle) =>
                    OnlyChanged(selectedElementId, DOMAIN newStyle, FALSE)
             /\ StyleCallNoToolbar(newStyle) =>
                    OnlyChanged(selectedElementId, DOMAIN newStyle, FALSE)
       /\ \A newStyle \in ModalEditChanges :
             ModalStyle(newStyle) =>
                OnlyChanged(editingComponent[1].id, DOMAIN newStyle, FALSE)]_vars

\* C34 witness: a scale gesture on the second element was committed in the
\* inline host: its fontSize is 21px, its position, color and content are as
\* loaded, and so is the whole first element.
C34_Witness ==
    /\ host = "inline"
    /\ session.phase = "done"
    /\ session.kind = "scale"
    /\ session.el = "e2"
    /\ session.commits = 1
    /\ Get(Comp(components, "e2").style, "fontSize") = Px(21 * PerPx)
    /\ Get(Comp(components, "e2").style, "left") = Get(Style2, "left")
    /\ Get(Comp(components, "e2").style, "color") = Get(Style2, "color")
    /\ Comp(components, "e2").content = <<"c">>
    /\ \E style1 \in Style1Cases : Comp(components, "e1") = Template(style1)[1]

\* C35 as stated: a scale commit on an element whose lineHeight is a unitless
\* multiplier leaves that lineHeight as stored, value and unit.
C35_UnitlessLineHeightKeptByScale ==
    [][(ScaleEnd /\ Get(Comp(components, session.el).style, "lineHeight").u = "") =>
         Get(Comp(components', session.el).style, "lineHeight") =
            Get(Comp(components, session.el).style, "lineHeight")]_vars

\* C36 as stated: the letter-spacing slider leaves the lineHeight of the
\* component as stored, value and unit, and the line-height slider leaves its
\* letterSpacing as stored.
C36_SpacingSlidersAreIndependent ==
    [][\A input \in SpacingInputs :
          ToolbarSpacing(input) =>
             LET st0 == Comp(components, selectedElementId).style
                 st1 == Comp(components', selectedElementId).style
             IN  IF input[1] = "letterSpacing"
                 THEN Get(st1, "lineHeight") = Get(st0, "lineHeight")
                 ELSE Get(st1, "letterSpacing") = Get(st0, "letterSpacing")]_vars

\* C37 as stated: in the inline hosts, when an element is tapped while
\* another one is edited and holds the focus, the buffer of the edited element
\* is stored as its content whichever of its blur and the tap runs first, and
\* the tap leaves the tapped element selected and edited.
C37_TapOnOtherElementSavesBuffer ==
    [][/\ Blur => Comp(components', focused).content = BlurPlainText(editableHtml)
       /\ (ReleaseClick /\ ~isDraggingRef[session.el] /\ editingElementId # session.el) =>
             /\ editingElementId' = session.el
             /\ selectedElementId' = session.el
             /\ focused # Null =>
                   Comp(components', focused).content = BlurPlainText(editableHtml)]_vars

\* C38 as stated: in the text modal at most one polling interval is active,
\* none is active once the modal is unmounted, the 1200 ms timeout of a
\* focus-in ends the interval of that focus-in, and an active interval ends
\* only at a focus-out, at the unmount, at the focus-in that replaces it or
\* at the timeout of the focus-in that started it.
C38_OnePollingIntervalEndedByItsOwnTimeout ==
    [][/\ Cardinality(keyboardWatcher'.active) <= 1
       /\ editingComponent' = << >> => keyboardWatcher'.active = {}
       /\ WatcherTimeout => NextTimeout(keyboardWatcher) \notin keyboardWatcher'.active
       /\ \A id \in keyboardWatcher.active \ keyboardWatcher'.active :
             \/ handleFocusOut
             \/ handleFocusIn
             \/ editingComponent' = << >>
             \/ WatcherTimeout /\ id = NextTimeout(keyboardWatcher)]_vars

====
